---- MODULE Spec2Model ----
(***************************************************************************)
(* A model of pfui's concurrent core: the toolexec Executor (foreground    *)
(* slot, background job registry, best-effort event channel) and the chat  *)
(* session's response stream (internal/tui/chat.go).                       *)
(*                                                                         *)
(* The executor's foreground half, its background half and the session's   *)
(* stream share no state, so each has a specification of its own over the  *)
(* same variables: FgSpec, BgSpec (BgFairSpec with worker fairness) and    *)
(* StreamSpec.  ExecSpec is the executor with both halves and one caller,  *)
(* EvSpec the executor's event channel with the session's listener,        *)
(* CatalogSpec the model catalog (WhitelistSpec under each configuration), *)
(* LoopSpec the session loop with its three message sources together.      *)
(* FgFairSpec and StreamFairSpec add the scheduling of goroutines to       *)
(* FgSpec and StreamSpec (the latter with the provider reader's return),   *)
(* SubmitSpec cuts the submission of a prompt at its call of StreamChat,   *)
(* MuSpec is the executor with its mutex, and HistorySpec the session      *)
(* history store (internal/history).  TranscriptSpec is the session loop   *)
(* with a response stream and a job as the producers of its transcript,    *)
(* SelectSpec the catalog with the keys that act on it, LoginSpec a        *)
(* browser login session (internal/authflow) and CredSpec the credential   *)
(* store (internal/authstore).                                             *)
(***************************************************************************)
EXTENDS Integers, Sequences, FiniteSets, TLC

\* ------------------------------------------------------------------ bounds
\* Goroutines that call Executor.Run / CancelForeground concurrently.
NumCallers == 2
\* Background jobs started over one run of the model.
MaxJobs == 2
\* Prompts submitted (StreamChat calls) over one run of the model.
MaxStreams == 2
\* Text chunks the providers send over one run of the model.
MaxChunks == 2
\* Background jobs one caller starts one after the other when the event
\* channel is left unread: with two events a job, more than the channel holds.
MaxBurst == 17
\* /model commands entered over one run of the model.
MaxFetches == 2
\* Results the fetch commands deliver over one run of the model.
MaxResults == 4
\* Sessions created in the history store over one run of the model.
MaxSessions == 2
\* Writes of the history file (CreateSession and Save calls) over one run.
MaxWrites == 3
\* Save calls on the credential store over one run of the model.
MaxSaves == 2
\* Capacity of the executor's event channel: make(chan Event, 32).
EventCap == 32

Callers == 1..NumCallers
JobIds == 1..MaxJobs
StreamIds == 1..MaxStreams
BurstIds == 1..MaxBurst

VARIABLES
    foreground,  \* Executor.foreground: {} is nil, {c} the foregroundCmd of caller c's run
    fg,          \* per caller: position in runForeground, its run context, cmd.Run's error
    fgCancelHits,\* observation: CancelForeground calls that returned true since the slot was last occupied
    jobs,        \* Executor.jobs: job ID -> Job
    cancels,     \* Executor.cancels: the IDs that have a cancel function registered
    events,      \* Executor.events: the buffered channel's contents
    uuids,       \* the IDs uuid.NewString has generated
    bgCtx,       \* per job: whether its bgCtx has been canceled
    worker,      \* per job: position of the worker goroutine and cmd.Run's error
    cancelHits,  \* observation: per ID, CancelJob calls that returned true
    canceledEarly, \* observation: the IDs for which CancelJob returned true before the worker's cmd.Run returned
    messages,        \* model.messages: the transcript's lines
    pendingResponse, \* model.pendingResponse: the active streamingResponse, or NoResponse for nil
    responseStream,  \* model.responseStream: {} is nil, {s} the channel StreamChat returned for stream s
    pendingCancel,   \* model.pendingCancel: {} is nil, {s} the cancel function of stream s's context
    canceled,        \* the streams whose context has been canceled
    streams,         \* per StreamChat call: the provider's side of the channel, with the text sent on it so far
    reads,           \* per stream: the commands of nextResponseChunkCmd blocked on its channel
    inbox,           \* the responseChunkMsg values on their way to Update
    escCanceled,     \* observation: the streams canceled by esc
    cfg,             \* model.cfg.Models: the global whitelist and the per-provider ones
    catalog,         \* model.catalog: visible, rows, loading, selection
    fetching,        \* the commands of fetchModelsCmd whose modelFetchMsg Update has not applied yet
    fetched,         \* observation: the /model commands entered so far
    applied,         \* observation: the modelFetchMsg values Update has applied since the last /model command, each with catalog.visible at the time
    modelJobs,       \* model.jobs: the session's mirror of the executor's jobs
    execEvent,       \* <<>>: the command of listenExecEvents waits on the channel; <<job>>: its execEventMsg is on its way to Update
    historyFile,     \* history.json: the encoded store, <<>> while the file does not exist
    clock,           \* time.Now(): a clock that advances with every reading
    held,            \* the Session values CreateSession and Get have returned to their callers
    histRet,         \* the history call that completed in the last step, with what it returned
    login,           \* a BrowserSession: its code channel, the position of Wait, the codes accepted and the code taken
    authRet,         \* the SubmitCallback call or HTTP callback that completed in the last step, with its outcome
    credFile,        \* credentials.json: the encoded Credentials, <<>> while the file does not exist
    credMu,          \* authstore.mu: the callers that hold it
    saving,          \* per caller: position in a Save call, its arguments and the Credentials it loaded
    written,         \* observation: per field and provider, the value of the last Save call that wrote it
    activeProvider,  \* model.activeProvider: the provider's name
    defaultModel,    \* model.defaultModel
    ret          \* the value returned by the call that completed in the last step

fgVars == <<foreground, fg, fgCancelHits>>
bgVars == <<jobs, cancels, events, uuids, bgCtx, worker, cancelHits, canceledEarly>>
sessVars == <<messages, pendingResponse, responseStream, pendingCancel, canceled,
              streams, reads, inbox, escCanceled>>
catVars == <<cfg, catalog, fetching, fetched, applied>>
mirrorVars == <<modelJobs, execEvent>>
histVars == <<historyFile, clock, held, histRet>>
authVars == <<login, authRet>>
credVars == <<credFile, credMu, saving, written>>
selVars == <<activeProvider, defaultModel>>
vars == <<foreground, fg, fgCancelHits, jobs, cancels, events, uuids, bgCtx,
          worker, cancelHits, canceledEarly, messages, pendingResponse, responseStream,
          pendingCancel, canceled, streams, reads, inbox, escCanceled,
          cfg, catalog, fetching, fetched, applied, modelJobs, execEvent,
          historyFile, clock, held, histRet, login, authRet, credFile, credMu, saving,
          written, activeProvider, defaultModel, ret>>

\* ------------------------------------------------------------ return values
NoRet == [op |-> "none", id |-> 0, ok |-> FALSE, code |-> 0, err |-> "nil", jobs |-> {}]
RetOf(op, id, ok, code, err, js) ==
    [op |-> op, id |-> id, ok |-> ok, code |-> code, err |-> err, jobs |-> js]

\* Counters of observations saturate, so that a broken variant stays finite.
Bump(n) == IF n < 2 THEN n + 1 ELSE n

\* ------------------------------------------------------------ toolexec data
JobRunning == "running"
JobSuccess == "success"
JobFailed == "failed"

\* Job as startBackground builds it.
NewJob(id) ==
    [ID |-> id, Status |-> JobRunning, ExitCode |-> 0, Output |-> "",
     Error |-> "", Ended |-> FALSE]

\* The errors cmd.Run can return: none, an *exec.ExitError of a process that
\* exited nonzero, an *exec.ExitError of a process killed through its context,
\* the context's error (not an ExitError), a spawn failure (not an ExitError).
IsExitError(err) == err \in {"exit", "killed"}
\* (*exec.ExitError).ExitCode(): the exit status, -1 for a signaled process.
ExitCodeOf(err) == IF err = "exit" THEN 1 ELSE -1
\* err.Error()
ErrorText(err) ==
    CASE err = "exit" -> "exit status 1"
      [] err = "killed" -> "signal: killed"
      [] err = "ctx" -> "context canceled"
      [] err = "spawn" -> "executable file not found"
      [] OTHER -> ""
\* What the process wrote before cmd.Run returned: nothing when it never started.
OutputOf(err) == IF err \in {"spawn", "ctx"} THEN "" ELSE "out"

\* The errors cmd.Run may return, given whether the command's context was
\* canceled while cmd.Run was in progress.
CmdRunErrors(ctxDone) ==
    IF ctxDone THEN {"killed", "ctx", "exit"} ELSE {"nil", "exit", "spawn"}

\* A variant of emit that sends whatever the channel already holds.
emitUnbounded(ch, job) == Append(ch, job)

\* A variant of emit whose event overtakes the events the channel holds.
emitOvertakes(ch, job) ==
    IF Len(ch) < EventCap THEN <<job>> \o ch ELSE ch

\* Executor.emit: a non-blocking send on the buffered channel.
emit(ch, job) ==
    IF Len(ch) < EventCap THEN Append(ch, job) ELSE ch

\* uuid.NewString: an ID no earlier call returned.
NewString(used) ==
    CHOOSE id \in 1..(Cardinality(used) + 1) :
        id \notin used /\ \A o \in 1..(id - 1) : o \in used

\* -------------------------------------------------------------------- Init
NewExecutor ==
    /\ foreground = {}
    /\ jobs = <<>>
    /\ cancels = {}
    /\ events = <<>>

\* --------------------------------------------------------- transcript text
\* Text is a sequence of characters, each paired with its origin: the stream
\* whose provider sent it, or 0 for text of the program itself.
Own(c) == << <<0, c>> >>
From(s, c) == << <<s, c>> >>
IsNewline(ch) == ch[2] = "\n"

\* strings.Split(text, "\n")
RECURSIVE Split(_)
Split(text) ==
    IF \A i \in 1..Len(text) : ~IsNewline(text[i])
    THEN <<text>>
    ELSE LET i == CHOOSE i \in 1..Len(text) :
                    IsNewline(text[i]) /\ \A j \in 1..(i - 1) : ~IsNewline(text[j])
         IN <<SubSeq(text, 1, i - 1)>> \o Split(SubSeq(text, i + 1, Len(text)))

RECURSIVE Fold(_)
Fold(body) == IF body = <<>> THEN <<>> ELSE Split(Head(body)) \o Fold(Tail(body))

\* A line appended to the transcript outside any block.
Plain(text) == [k |-> "plain", t |-> text]

\* historyBlockLines: a header with the title, one line per folded body line,
\* a closing border. (Padding and style.Render change how a line looks, not
\* which lines there are.)
historyBlockLines(title, body) ==
    LET folded == Fold(body) IN
    <<[k |-> "head", t |-> title]>>
        \o [i \in 1..Len(folded) |-> [k |-> "body", t |-> folded[i]]]
        \o <<[k |-> "foot", t |-> <<>>]>>

\* appendStyledHistoryBlockRef: the transcript with the block appended, and the
\* block's blockRef.
appendStyledHistoryBlockRef(msgs, title, body) ==
    LET lines == historyBlockLines(title, body) IN
    [msgs |-> msgs \o lines, ref |-> [start |-> Len(msgs), length |-> Len(lines)]]

Min(a, b) == IF a < b THEN a ELSE b

\* A variant of replaceHistoryBlock that writes the block's new lines over the
\* end of the transcript, from the block's first line on.
replaceHistoryBlockToEnd(msgs, ref, title, body) ==
    LET lines == historyBlockLines(title, body)
        start == Min(ref.start, Len(msgs))
    IN [msgs |-> SubSeq(msgs, 1, start) \o lines,
        ref |-> [start |-> start, length |-> Len(lines)]]

\* replaceHistoryBlock: the transcript with the lines ref names replaced by the
\* block's new lines, and the updated blockRef.
replaceHistoryBlock(msgs, ref, title, body) ==
    LET lines == historyBlockLines(title, body)
        start == Min(ref.start, Len(msgs))
        end == Min(ref.start + ref.length, Len(msgs))
    IN [msgs |-> SubSeq(msgs, 1, start) \o lines \o SubSeq(msgs, end + 1, Len(msgs)),
        ref |-> [start |-> start, length |-> Len(lines)]]

\* model.pendingResponse = nil
NoResponse ==
    [active |-> FALSE, block |-> [start |-> 0, length |-> 0], buffer |-> <<>>]

\* The title of the assistant's block and of the user's.
AssistantTitle == Own("pfui")
UserTitle == Own("you")

\* newModel, for a configuration with one provider: that provider is active,
\* the transcript holds the greeting, no response is pending.
newModel ==
    /\ messages = <<Plain(Own("pfui ready"))>>
    /\ pendingResponse = NoResponse
    /\ responseStream = {}
    /\ pendingCancel = {}

\* The registry's providers: the built-in OpenAI client and a custom connector
\* on the Anthropic adapter.
Providers ==
    <<[Name |-> "OpenAI", Kind |-> "openai"], [Name |-> "MyProxy", Kind |-> "anthropic"]>>

\* defaultModelFor: the model a provider of its kind is used with by default.
defaultModelFor(p) ==
    CASE p.Kind = "openai" -> "gpt-5.1-codex"
      [] p.Kind = "anthropic" -> "claude-4.5-sonnet"
      [] OTHER -> ""

\* config.Default: no global whitelist, no per-provider whitelist.
Default == [Whitelist |-> <<>>, ProviderWhitelist |-> [k \in {} |-> <<>>]]

\* The state after tui.Run has built the model and model.Init has issued the
\* command of listenExecEvents; the configuration is whatever was loaded, and
\* the first provider of the registry is the active one (trySelectProvider).
Started ==
    /\ NewExecutor
    /\ fg = [c \in Callers |-> [pc |-> "idle", done |-> FALSE, err |-> "nil"]]
    /\ fgCancelHits = 0
    /\ uuids = {}
    /\ bgCtx = <<>>
    /\ worker = <<>>
    /\ cancelHits = [id \in JobIds |-> 0]
    /\ canceledEarly = {}
    /\ newModel
    /\ streams = <<>>
    /\ reads = [s \in StreamIds |-> 0]
    /\ inbox = {}
    /\ canceled = {}
    /\ escCanceled = {}
    /\ catalog = [visible |-> FALSE, rows |-> <<>>, loading |-> {}, selection |-> 0]
    /\ fetching = {}
    /\ fetched = 0
    /\ applied = {}
    /\ modelJobs = <<>>
    /\ execEvent = <<>>
    /\ historyFile = <<>>
    /\ clock = 0
    /\ held = {}
    /\ histRet = [op |-> "none"]
    /\ login = [codeCh |-> <<>>, pc |-> "idle", accepted |-> <<>>, taken |-> <<>>]
    /\ authRet = [op |-> "none"]
    /\ credFile = <<>>
    /\ credMu = {}
    /\ saving = [c \in Callers |-> [pc |-> "idle"]]
    /\ written = [calls |-> 0, last |-> [k \in {} |-> <<>>]]
    /\ activeProvider = Providers[1].Name
    /\ defaultModel = defaultModelFor(Providers[1])
    /\ ret = NoRet

Init == Started /\ cfg = Default

\* ------------------------------------------------------- foreground half
\* A variant of Run that validates the command after the slot and the registry
\* have been prepared: the error is returned, yet the foreground slot is
\* cleared and a cancel function is left registered.
RunEmptyValidatesLate ==
    /\ ret' = RetOf("Run", 0, FALSE, 0, "command is required", {})
    /\ foreground' = {}
    /\ cancels' = cancels \cup {0}
    /\ UNCHANGED <<fg, fgCancelHits, jobs, events, uuids, bgCtx, worker,
                   cancelHits, canceledEarly, sessVars, catVars, mirrorVars, histVars, authVars, credVars, selVars>>

\* Run with an empty command: an input error, nothing else happens.
RunEmpty ==
    /\ ret' = RetOf("Run", 0, FALSE, 0, "command is required", {})
    /\ UNCHANGED <<fgVars, bgVars, sessVars, catVars, mirrorVars, histVars, authVars, credVars, selVars>>

\* runForeground up to cmd.Run: derive the run's context and occupy the slot.
RunForegroundBegin(c) ==
    /\ fg[c].pc = "idle"
    /\ foreground' = {c}
    /\ fg' = [fg EXCEPT ![c] = [pc |-> "running", done |-> FALSE, err |-> "nil"]]
    /\ fgCancelHits' = 0
    /\ ret' = NoRet
    /\ UNCHANGED <<bgVars, sessVars, catVars, mirrorVars, histVars, authVars, credVars, selVars>>

\* The caller's own context is canceled while its run is in progress.
CallerCtxCancel(c) ==
    /\ fg[c].pc = "running"
    /\ ~fg[c].done
    /\ fg' = [fg EXCEPT ![c].done = TRUE]
    /\ ret' = NoRet
    /\ UNCHANGED <<foreground, fgCancelHits, bgVars, sessVars, catVars, mirrorVars, histVars, authVars, credVars, selVars>>

\* cmd.Run returns in caller c's runForeground.
RunForegroundCmdRun(c) ==
    /\ fg[c].pc = "running"
    /\ \E err \in CmdRunErrors(fg[c].done) :
          fg' = [fg EXCEPT ![c].pc = "exited", ![c].err = err]
    /\ ret' = NoRet
    /\ UNCHANGED <<foreground, fgCancelHits, bgVars, sessVars, catVars, mirrorVars, histVars, authVars, credVars, selVars>>

\* The exit code runForeground computes from cmd.Run's error.
ForegroundExitCode(err) ==
    IF err = "nil" THEN 0 ELSE IF IsExitError(err) THEN ExitCodeOf(err) ELSE -1

\* runForeground after cmd.Run: clear the slot and return.
RunForegroundEnd(c) ==
    /\ fg[c].pc = "exited"
    /\ foreground' = {}
    /\ fg' = [fg EXCEPT ![c] = [pc |-> "idle", done |-> FALSE, err |-> "nil"]]
    /\ ret' = RetOf("Run", 0, fg[c].err = "nil", ForegroundExitCode(fg[c].err),
                    fg[c].err, {})
    /\ UNCHANGED <<fgCancelHits, bgVars, sessVars, catVars, mirrorVars, histVars, authVars, credVars, selVars>>

\* A variant of CancelForeground that cancels but leaves the slot occupied.
CancelForegroundKeepsSlot ==
    /\ IF foreground = {}
       THEN /\ ret' = RetOf("CancelForeground", 0, FALSE, 0, "nil", {})
            /\ UNCHANGED <<foreground, fg, fgCancelHits>>
       ELSE /\ fg' = [c \in Callers |->
                        IF c \in foreground THEN [fg[c] EXCEPT !.done = TRUE] ELSE fg[c]]
            /\ fgCancelHits' = Bump(fgCancelHits)
            /\ ret' = RetOf("CancelForeground", 0, TRUE, 0, "nil", {})
            /\ UNCHANGED foreground
    /\ UNCHANGED <<bgVars, sessVars, catVars, mirrorVars, histVars, authVars, credVars, selVars>>

CancelForeground ==
    /\ IF foreground = {}
       THEN /\ ret' = RetOf("CancelForeground", 0, FALSE, 0, "nil", {})
            /\ UNCHANGED <<foreground, fg, fgCancelHits>>
       ELSE /\ fg' = [c \in Callers |->
                        IF c \in foreground THEN [fg[c] EXCEPT !.done = TRUE] ELSE fg[c]]
            /\ foreground' = {}
            /\ fgCancelHits' = Bump(fgCancelHits)
            /\ ret' = RetOf("CancelForeground", 0, TRUE, 0, "nil", {})
    /\ UNCHANGED <<bgVars, sessVars, catVars, mirrorVars, histVars, authVars, credVars, selVars>>

FgNext ==
    \/ RunEmpty
    \/ \E c \in Callers : RunForegroundBegin(c)
    \/ \E c \in Callers : CallerCtxCancel(c)
    \/ \E c \in Callers : RunForegroundCmdRun(c)
    \/ \E c \in Callers : RunForegroundEnd(c)
    \/ CancelForeground

FgSpec == Init /\ [][FgNext]_vars

\* A process whose context is canceled is killed, so its cmd.Run returns, and
\* the goroutine that called Run is scheduled; a process nobody cancels may
\* run for ever.
FgFairness ==
    \A c \in Callers :
        /\ WF_vars(fg[c].done /\ RunForegroundCmdRun(c))
        /\ WF_vars(RunForegroundEnd(c))

FgFairSpec == FgSpec /\ FgFairness

\* Callers whose foreground process may be running: the slot has been occupied
\* and cmd.Run has not returned.
ForegroundRunning == {c \in Callers : fg[c].pc = "running"}
\* Callers inside a foreground run, from occupying the slot to returning.
ForegroundActive == {c \in Callers : fg[c].pc # "idle"}

\* C3: at most one foreground job is active system-wide: no reachable state
\* has two foreground processes running at the same time, whatever callers
\* invoke Run(background=false) concurrently.
C3_AtMostOneForeground == Cardinality(ForegroundRunning) <= 1

\* C4: between a foreground run occupying the slot and the next run occupying
\* it, at most one CancelForeground call returns true; and a CancelForeground
\* call made while no foreground run is in progress returns false.
C4_CancelForegroundOnce ==
    /\ fgCancelHits <= 1
    /\ (ret.op = "CancelForeground" /\ ForegroundActive = {}) => ~ret.ok

\* A second CancelForeground call during one run has just returned false.
C4_Witness ==
    /\ ret.op = "CancelForeground"
    /\ ~ret.ok
    /\ fgCancelHits = 1
    /\ ForegroundRunning # {}

\* ------------------------------------------------------- background half
\* startBackground: register the job and its cancel function under the lock,
\* emit the start event, launch the worker, return the ID.
startBackground ==
    /\ LET id == NewString(uuids) IN
         /\ uuids' = uuids \cup {id}
         /\ jobs' = (id :> NewJob(id)) @@ jobs
         /\ cancels' = cancels \cup {id}
         /\ bgCtx' = (id :> FALSE) @@ bgCtx
         /\ events' = emit(events, NewJob(id))
         /\ worker' = (id :> [pc |-> "run", err |-> "nil"]) @@ worker
         /\ ret' = RetOf("Run", id, TRUE, 0, "nil", {})
    /\ UNCHANGED <<cancelHits, canceledEarly, fgVars, sessVars, catVars, mirrorVars, histVars, authVars, credVars, selVars>>

\* The worker's cmd.Run returns.
WorkerCmdRun(id) ==
    /\ id \in DOMAIN worker
    /\ worker[id].pc = "run"
    /\ \E err \in CmdRunErrors(bgCtx[id]) :
          worker' = [worker EXCEPT ![id] = [pc |-> "waited", err |-> err]]
    /\ ret' = NoRet
    /\ UNCHANGED <<jobs, cancels, events, uuids, bgCtx, cancelHits, canceledEarly, fgVars, sessVars, catVars, mirrorVars, histVars, authVars, credVars, selVars>>

\* Run with Background set, for callers that start MaxJobs jobs in all.
RunBackground == uuids # JobIds /\ startBackground

\* A variant of Terminal that takes only a non-ExitError for a failure.
TerminalExitErrorIsSuccess(job, err) ==
    IF err # "nil" /\ ~IsExitError(err)
    THEN [job EXCEPT !.Output = OutputOf(err), !.Ended = TRUE, !.Status = JobFailed,
                     !.Error = ErrorText(err), !.ExitCode = -1]
    ELSE [job EXCEPT !.Output = OutputOf(err), !.Ended = TRUE, !.Status = JobSuccess,
                     !.ExitCode = 0]

\* A variant of Terminal without the default exit code of a failure.
TerminalNoDefaultExitCode(job, err) ==
    IF err # "nil"
    THEN [job EXCEPT !.Output = OutputOf(err), !.Ended = TRUE, !.Status = JobFailed,
                     !.Error = ErrorText(err),
                     !.ExitCode = IF IsExitError(err) THEN ExitCodeOf(err) ELSE 0]
    ELSE [job EXCEPT !.Output = OutputOf(err), !.Ended = TRUE, !.Status = JobSuccess,
                     !.ExitCode = 0]

\* The terminal transition the worker writes under the lock.
Terminal(job, err) ==
    IF err # "nil"
    THEN [job EXCEPT !.Output = OutputOf(err), !.Ended = TRUE, !.Status = JobFailed,
                     !.Error = ErrorText(err),
                     !.ExitCode = IF IsExitError(err) THEN ExitCodeOf(err) ELSE -1]
    ELSE [job EXCEPT !.Output = OutputOf(err), !.Ended = TRUE, !.Status = JobSuccess,
                     !.ExitCode = 0]

\* A variant of the worker's locked region that leaves the cancel function
\* registered.
WorkerRecordKeepsCancel(id) ==
    /\ id \in DOMAIN worker
    /\ worker[id].pc = "waited"
    /\ jobs' = [jobs EXCEPT ![id] = Terminal(jobs[id], worker[id].err)]
    /\ worker' = [worker EXCEPT ![id].pc = "recorded"]
    /\ ret' = NoRet
    /\ UNCHANGED <<cancels, events, uuids, bgCtx, cancelHits, canceledEarly, fgVars,
                   sessVars, catVars, mirrorVars, histVars, authVars, credVars, selVars>>

\* A variant of the worker's locked region that drops the cancel function of
\* a failed job only.
WorkerRecordKeepsCancelOfSuccess(id) ==
    /\ id \in DOMAIN worker
    /\ worker[id].pc = "waited"
    /\ jobs' = [jobs EXCEPT ![id] = Terminal(jobs[id], worker[id].err)]
    /\ cancels' = IF worker[id].err # "nil" THEN cancels \ {id} ELSE cancels
    /\ worker' = [worker EXCEPT ![id].pc = "recorded"]
    /\ ret' = NoRet
    /\ UNCHANGED <<events, uuids, bgCtx, cancelHits, canceledEarly, fgVars, sessVars,
                   catVars, mirrorVars, histVars, authVars, credVars, selVars>>

\* The worker's locked region: record the outcome, drop the cancel function.
WorkerRecord(id) ==
    /\ id \in DOMAIN worker
    /\ worker[id].pc = "waited"
    /\ jobs' = [jobs EXCEPT ![id] = Terminal(jobs[id], worker[id].err)]
    /\ cancels' = cancels \ {id}
    /\ worker' = [worker EXCEPT ![id].pc = "recorded"]
    /\ ret' = NoRet
    /\ UNCHANGED <<events, uuids, bgCtx, cancelHits, canceledEarly, fgVars, sessVars, catVars, mirrorVars, histVars, authVars, credVars, selVars>>

\* The worker's last statement: emit the terminal event.
WorkerEmit(id) ==
    /\ id \in DOMAIN worker
    /\ worker[id].pc = "recorded"
    /\ events' = emit(events, jobs[id])
    /\ worker' = [worker EXCEPT ![id].pc = "done"]
    /\ ret' = NoRet
    /\ UNCHANGED <<jobs, cancels, uuids, bgCtx, cancelHits, canceledEarly, fgVars, sessVars, catVars, mirrorVars, histVars, authVars, credVars, selVars>>

\* A variant of CancelJob that calls cancel but keeps it registered.
CancelJobKeepsCancel(id) ==
    /\ LET ok == id \in cancels IN
         /\ bgCtx' = IF ok THEN [bgCtx EXCEPT ![id] = TRUE] ELSE bgCtx
         /\ cancelHits' = IF ok THEN [cancelHits EXCEPT ![id] = Bump(@)] ELSE cancelHits
         /\ canceledEarly' = IF ok /\ worker[id].pc = "run"
                             THEN canceledEarly \cup {id} ELSE canceledEarly
         /\ ret' = RetOf("CancelJob", id, ok, 0, "nil", {})
    /\ UNCHANGED <<cancels, jobs, events, uuids, worker, fgVars, sessVars, catVars, mirrorVars, histVars, authVars, credVars, selVars>>

\* A variant of CancelJob that also marks the job failed.
CancelJobMarksFailed(id) ==
    /\ LET ok == id \in cancels IN
         /\ cancels' = cancels \ {id}
         /\ bgCtx' = IF ok THEN [bgCtx EXCEPT ![id] = TRUE] ELSE bgCtx
         /\ jobs' = IF ok THEN [jobs EXCEPT ![id].Status = JobFailed] ELSE jobs
         /\ cancelHits' = IF ok THEN [cancelHits EXCEPT ![id] = Bump(@)] ELSE cancelHits
         /\ canceledEarly' = IF ok /\ worker[id].pc = "run"
                             THEN canceledEarly \cup {id} ELSE canceledEarly
         /\ ret' = RetOf("CancelJob", id, ok, 0, "nil", {})
    /\ UNCHANGED <<events, uuids, worker, fgVars, sessVars, catVars, mirrorVars, histVars, authVars, credVars, selVars>>

\* A variant of CancelJob that unregisters the cancel function without calling it.
CancelJobForgetsCancel(id) ==
    /\ LET ok == id \in cancels IN
         /\ cancels' = cancels \ {id}
         /\ cancelHits' = IF ok THEN [cancelHits EXCEPT ![id] = Bump(@)] ELSE cancelHits
         /\ canceledEarly' = IF ok /\ worker[id].pc = "run"
                             THEN canceledEarly \cup {id} ELSE canceledEarly
         /\ ret' = RetOf("CancelJob", id, ok, 0, "nil", {})
    /\ UNCHANGED <<bgCtx, jobs, events, uuids, worker, fgVars, sessVars, catVars, mirrorVars, histVars, authVars, credVars, selVars>>

CancelJob(id) ==
    /\ LET ok == id \in cancels IN
         /\ cancels' = cancels \ {id}
         /\ bgCtx' = IF ok THEN [bgCtx EXCEPT ![id] = TRUE] ELSE bgCtx
         /\ cancelHits' = IF ok THEN [cancelHits EXCEPT ![id] = Bump(@)] ELSE cancelHits
         /\ canceledEarly' = IF ok /\ worker[id].pc = "run"
                             THEN canceledEarly \cup {id} ELSE canceledEarly
         /\ ret' = RetOf("CancelJob", id, ok, 0, "nil", {})
    /\ UNCHANGED <<jobs, events, uuids, worker, fgVars, sessVars, catVars, mirrorVars, histVars, authVars, credVars, selVars>>

\* A variant of the snapshot that lists only the jobs still running.
SnapshotRunningOnly(js) == {js[id] : id \in {i \in DOMAIN js : js[i].Status = JobRunning}}

\* The slice ActiveJobs builds: a copy of every job in the registry.
Snapshot(js) == {js[id] : id \in DOMAIN js}

ActiveJobs ==
    /\ ret' = RetOf("ActiveJobs", 0, TRUE, 0, "nil", Snapshot(jobs))
    /\ UNCHANGED <<bgVars, fgVars, sessVars, catVars, mirrorVars, histVars, authVars, credVars, selVars>>

BgNext ==
    \/ RunEmpty
    \/ RunBackground
    \/ \E id \in JobIds : WorkerCmdRun(id)
    \/ \E id \in JobIds : WorkerRecord(id)
    \/ \E id \in JobIds : WorkerEmit(id)
    \/ \E id \in JobIds : CancelJob(id)
    \/ ActiveJobs

BgSpec == Init /\ [][BgNext]_vars

\* Executor.Run: the command is validated before the request's Background flag
\* is read; a background request goes to startBackground, any other to
\* runForeground in the calling goroutine c.
Run(c, command, background) ==
    IF command = ""
    THEN RunEmpty
    ELSE IF background
         THEN RunBackground
         ELSE RunForegroundBegin(c)

\* The commands a request carries: none, or some shell command.
Commands == {"", "ls"}

\* The whole executor with one caller: its requests of either kind, its
\* foreground run, the worker of the one background job it starts, and the
\* cancellation of either.
ExecNext ==
    \/ \E command \in Commands, background \in BOOLEAN :
          /\ (command # "" /\ background) => uuids = {}
          /\ Run(1, command, background)
    \/ RunForegroundCmdRun(1)
    \/ RunForegroundEnd(1)
    \/ CancelForeground
    \/ \E id \in JobIds : WorkerCmdRun(id)
    \/ \E id \in JobIds : WorkerRecord(id)
    \/ \E id \in JobIds : WorkerEmit(id)
    \/ \E id \in JobIds : CancelJob(id)

ExecSpec == Init /\ [][ExecNext]_vars

\* A step of some job's worker goroutine.
WorkerStep ==
    \E id \in JobIds : WorkerCmdRun(id) \/ WorkerRecord(id) \/ WorkerEmit(id)

\* Worker goroutines are scheduled, and the processes they wait for exit.
BgFairness == WF_vars(WorkerStep)

\* The calls that start a job or cancel one, and the workers' steps: the steps
\* that change what a job goes on to report.  Run with an empty command and
\* ActiveJobs read the executor without altering it.
BgFairNext ==
    \/ RunBackground
    \/ \E id \in JobIds : WorkerCmdRun(id)
    \/ \E id \in JobIds : WorkerRecord(id)
    \/ \E id \in JobIds : WorkerEmit(id)
    \/ \E id \in JobIds : CancelJob(id)

BgFairSpec == Init /\ [][BgFairNext]_vars /\ BgFairness

\* ------------------------------------------------- background half: claims
\* The worker of job id has written the job's terminal transition.
Recorded(id) == id \in DOMAIN worker /\ worker[id].pc \in {"recorded", "done"}
\* ActiveJobs lists job id with a terminal status that matches how cmd.Run ended.
ReportsOutcome(id) ==
    /\ Recorded(id)
    /\ \E j \in Snapshot(jobs) :
          /\ j.ID = id
          /\ IF worker[id].err = "nil"
             THEN j.Status = JobSuccess /\ j.ExitCode = 0
             ELSE j.Status = JobFailed
\* ActiveJobs lists job id as Failed with a nonzero exit code.
ReportsFailed(id) ==
    \E j \in Snapshot(jobs) : j.ID = id /\ j.Status = JobFailed /\ j.ExitCode # 0
\* Job id ended because its context was canceled.
Canceled(id) == Recorded(id) /\ worker[id].err \in {"killed", "ctx"}
\* Job id failed on its own: a spawn error or a nonzero exit.
SelfFailed(id) == Recorded(id) /\ worker[id].err \in {"exit", "spawn"}
\* The status job id has by its worker's progress, whatever the registry says.
TrueStatus(id) ==
    IF Recorded(id)
    THEN IF worker[id].err = "nil" THEN JobSuccess ELSE JobFailed
    ELSE JobRunning

\* C5: CancelJob is idempotent per ID: of all CancelJob(id) calls ever made at
\* most one returns true (a second call on a running job returns false), and
\* a call with an ID that was never issued returns false.
C5_CancelJobIdempotent ==
    /\ \A id \in JobIds : cancelHits[id] <= 1
    /\ (ret.op = "CancelJob" /\ ret.id \notin uuids) => ~ret.ok

\* A second CancelJob on a job that still shows Running has just returned false.
C5_Witness ==
    /\ ret.op = "CancelJob"
    /\ ~ret.ok
    /\ cancelHits[ret.id] = 1
    /\ ret.id \in DOMAIN jobs
    /\ jobs[ret.id].Status = JobRunning

\* C6: a background Run returns a job ID while the job is still Running and its
\* process has not been waited for; and, the workers being scheduled and the
\* processes exiting, ActiveJobs eventually reports every job started with the
\* terminal status of its outcome: Success with exit code 0 after exit 0, else
\* Failed. (The set of started jobs only grows, so "again and again, every job
\* started so far is reported" gives "each job is eventually reported".)
C6_BackgroundRunReports ==
    /\ [](ret.op = "Run" /\ ret.id # 0 =>
            /\ ret.id \in DOMAIN jobs
            /\ jobs[ret.id].Status = JobRunning
            /\ worker[ret.id].pc = "run")
    /\ []<>(\A id \in uuids : ReportsOutcome(id))

\* One job ended Success with exit code 0 and another ended Failed.
C6_Witness ==
    \E a, b \in DOMAIN jobs :
        /\ ReportsOutcome(a) /\ jobs[a].Status = JobSuccess /\ jobs[a].ExitCode = 0
        /\ ReportsOutcome(b) /\ jobs[b].Status = JobFailed

\* C7: a job's status only ever changes from Running to Success or Failed, and
\* once a job is terminal none of its fields changes again, whatever calls
\* follow.
C7_TerminalIsFinal ==
    [][\A id \in DOMAIN jobs :
          /\ id \in DOMAIN jobs'
          /\ jobs[id].Status # JobRunning => jobs'[id] = jobs[id]
          /\ jobs'[id].Status # jobs[id].Status =>
                /\ jobs[id].Status = JobRunning
                /\ jobs'[id].Status \in {JobSuccess, JobFailed}]_vars

\* CancelJob has just been called on a terminal job, a later job being registered.
C7_Witness ==
    /\ ret.op = "CancelJob"
    /\ ret.id \in DOMAIN jobs
    /\ jobs[ret.id].Status # JobRunning
    /\ \E other \in DOMAIN jobs : other # ret.id /\ jobs[other].Status = JobRunning

C9_CancelDistinctFromFailure ==
    \A a, b \in DOMAIN jobs :
        (Canceled(a) /\ SelfFailed(b)) => jobs[a].Status # jobs[b].Status

\* C9, amended: a job has one of the three statuses Running, Success, Failed,
\* and a job that ended because it was canceled ends Failed with exit code -1
\* or the nonzero code of its ExitError: the status of a job that failed on
\* its own.
C9_CanceledEndsFailed ==
    \A id \in DOMAIN jobs :
        /\ jobs[id].Status \in {JobRunning, JobSuccess, JobFailed}
        /\ (Canceled(id) \/ SelfFailed(id)) =>
              (jobs[id].Status = JobFailed /\ jobs[id].ExitCode # 0)
        /\ Canceled(id) => jobs[id].ExitCode = -1

\* A canceled job and a job that failed on its own are both terminal.
C9_Witness ==
    \E a, b \in DOMAIN jobs : Canceled(a) /\ SelfFailed(b)

\* C10: ActiveJobs returns exactly one entry for every background job ever
\* started, with the job's current status; no entry is ever removed from the
\* registry; and the ID a background Run returns is one no earlier Run returned.
C10_ActiveJobsAuthoritative ==
    /\ [](ret.op = "ActiveJobs" =>
            /\ {j.ID : j \in ret.jobs} = uuids
            /\ Cardinality(ret.jobs) = Cardinality(uuids)
            /\ \A j \in ret.jobs : j.Status = TrueStatus(j.ID))
    /\ [][/\ DOMAIN jobs \subseteq DOMAIN jobs'
          /\ (ret'.op = "Run" /\ ret'.id # 0) => ret'.id \notin DOMAIN jobs]_vars

\* ActiveJobs has just returned a running job and a terminal one.
C10_Witness ==
    /\ ret.op = "ActiveJobs"
    /\ \E a, b \in ret.jobs : a.Status = JobRunning /\ b.Status # JobRunning

\* ------------------------------------------- event channel and job mirror
\* recordJobEvent: the transcript line of a job event.
recordJobEvent(job) ==
    CASE job.Status = JobRunning ->
           Plain(Own("job") \o Own(ToString(job.ID)) \o Own("started"))
      [] job.Status = JobSuccess ->
           Plain(Own("job") \o Own(ToString(job.ID)) \o Own("completed")
                    \o Own(ToString(job.ExitCode)))
      [] OTHER ->
           Plain(Own("job") \o Own(ToString(job.ID)) \o Own("failed")
                    \o Own(ToString(job.ExitCode))
                    \o (IF job.Error # "" THEN Own(job.Error) ELSE <<>>))

\* A variant of the command of listenExecEvents that takes the newest event
\* the channel holds instead of the oldest.
ListenExecEventsNewestFirst ==
    /\ execEvent = <<>>
    /\ events # <<>>
    /\ execEvent' = <<events[Len(events)]>>
    /\ events' = SubSeq(events, 1, Len(events) - 1)
    /\ UNCHANGED <<jobs, cancels, uuids, bgCtx, worker, cancelHits, canceledEarly,
                   modelJobs, fgVars, sessVars, catVars, histVars, authVars, credVars, selVars, ret>>

\* The command of listenExecEvents: receive one event from Executor.Events().
ListenExecEvents ==
    /\ execEvent = <<>>
    /\ events # <<>>
    /\ execEvent' = <<Head(events)>>
    /\ events' = Tail(events)
    /\ UNCHANGED <<jobs, cancels, uuids, bgCtx, worker, cancelHits, canceledEarly,
                   modelJobs, fgVars, sessVars, catVars, histVars, authVars, credVars, selVars, ret>>

\* A variant of Update's execEventMsg case in which the event of a failed job
\* ends the response stream in progress.
ExecEventMsgFailureEndsStream ==
    /\ execEvent # <<>>
    /\ LET job == execEvent[1] IN
         /\ modelJobs' = [id \in DOMAIN modelJobs \cup {job.ID} |->
                             IF id = job.ID THEN job ELSE modelJobs[id]]
         /\ messages' = Append(messages, recordJobEvent(job))
         /\ IF job.Status = JobFailed /\ pendingResponse.active
            THEN /\ canceled' = canceled \cup pendingCancel
                 /\ pendingCancel' = {}
                 /\ pendingResponse' = NoResponse
                 /\ responseStream' = {}
            ELSE UNCHANGED <<pendingResponse, responseStream, pendingCancel, canceled>>
    /\ execEvent' = <<>>
    /\ UNCHANGED <<streams, reads, inbox, escCanceled, fgVars, bgVars, catVars, histVars, authVars, credVars, selVars, ret>>

\* Update, execEventMsg: store the job in the mirror, record it in the
\* transcript, listen again. (Job IDs are UUIDs, never the empty string.)
ExecEventMsg ==
    /\ execEvent # <<>>
    /\ LET job == execEvent[1] IN
         /\ modelJobs' = [id \in DOMAIN modelJobs \cup {job.ID} |->
                             IF id = job.ID THEN job ELSE modelJobs[id]]
         /\ messages' = Append(messages, recordJobEvent(job))
    /\ execEvent' = <<>>
    /\ UNCHANGED <<pendingResponse, responseStream, pendingCancel, canceled, streams,
                   reads, inbox, escCanceled, fgVars, bgVars, catVars, histVars, authVars, credVars, selVars, ret>>

\* A caller that starts MaxBurst jobs, each after the one before has ended.
BurstRun ==
    /\ uuids # BurstIds
    /\ \A id \in uuids : worker[id].pc = "done"
    /\ startBackground

\* The process of a job of the burst exits with status 0.
BurstExit(id) == WorkerCmdRun(id) /\ worker'[id].err = "nil"

EvNext ==
    \/ BurstRun
    \/ \E id \in BurstIds : BurstExit(id)
    \/ \E id \in BurstIds : WorkerRecord(id)
    \/ \E id \in BurstIds : WorkerEmit(id)
    \/ ListenExecEvents
    \/ ExecEventMsg

EvSpec == Init /\ [][EvNext]_vars

\* A step of the worker of a job of the burst.
BurstWorkerStep ==
    \E id \in BurstIds : BurstExit(id) \/ WorkerRecord(id) \/ WorkerEmit(id)

\* Workers are scheduled and their processes exit; the session loop runs its
\* listener command and applies the message it returns.
EvFairness == WF_vars(BurstWorkerStep) /\ WF_vars(ListenExecEvents \/ ExecEventMsg)

EvFairSpec == EvSpec /\ EvFairness

\* The jobs none of whose events is in the channel, on its way to Update or in
\* the mirror, although the worker has emitted the terminal one.
Unseen ==
    {id \in DOMAIN worker :
        /\ worker[id].pc = "done"
        /\ id \notin DOMAIN modelJobs
        /\ \A i \in 1..Len(events) : events[i].ID # id
        /\ \A i \in 1..Len(execEvent) : execEvent[i].ID # id}

\* C11: publication never blocks a producer. The channel never holds more than
\* 32 events; a worker that has recorded its job's outcome can always take its
\* emit step and a background Run can always be made, however full the
\* channel is; and an emit on a channel that holds 32 events leaves it as it is.
C11_EmitNeverBlocks ==
    /\ [](Len(events) <= EventCap)
    /\ [](\A id \in DOMAIN worker : worker[id].pc = "recorded" => ENABLED WorkerEmit(id))
    /\ [](ENABLED startBackground)
    /\ [][Len(events) = EventCap => events' \in {events, Tail(events)}]_vars

\* The channel is full and a finished job's events were both dropped.
C11_Witness == Len(events) = EventCap /\ Unseen # {}

\* The mirror shows job id with the terminal status the registry has for it.
Mirrored(id) ==
    \E j \in Snapshot(jobs) :
        /\ j.ID = id
        /\ j.Status # JobRunning
        /\ id \in DOMAIN modelJobs
        /\ modelJobs[id].Status = j.Status

\* C12: the mirror is reconciled with the registry: workers and the listener
\* being scheduled, the session's mirror eventually shows every background
\* job with the terminal status ActiveJobs reports for it, also when the
\* job's terminal event was dropped. (Jobs are terminal for good, so "again
\* and again, every job started so far is mirrored" follows from the claim.)
C12_MirrorReconciled == []<>(\A id \in uuids : Mirrored(id))

\* ----------------------------------------------------------- model catalog
\* strings.ToLower and strings.TrimSpace, on the strings of the model.
ToLower(str) ==
    CASE str = "OpenAI" -> "openai"
      [] str = "MyProxy" -> "myproxy"
      [] OTHER -> str
TrimSpace(str) ==
    CASE str = " a " -> "a"
      [] str = " " -> ""
      [] OTHER -> str

\* The configurations a run may have loaded: config.Load keeps the keys of
\* provider_whitelist as they are written in the file.
Configs ==
    {[Whitelist |-> w, ProviderWhitelist |-> pw] :
        w \in {<<>>, <<"b">>},
        pw \in {[k \in {} |-> <<>>],
                [k \in {"myproxy"} |-> <<" a ">>],
                [k \in {"MyProxy"} |-> <<"a">>],
                [k \in {"anthropic"} |-> <<"c">>],
                [k \in {"openai"} |-> <<" ">>],
                [k \in {"myproxy", "anthropic"} |->
                    IF k = "myproxy" THEN <<>> ELSE <<"a", "b">>]}}

\* A run with any of these configurations loaded.
WhitelistInit == Started /\ cfg \in Configs

\* A run with a whitelist for the providers of kind anthropic that none of the
\* models they list is on.
CatalogInit ==
    Started /\ cfg = [Whitelist |-> <<>>, ProviderWhitelist |-> [k \in {"anthropic"} |-> <<"c">>]]

\* model.providerWhitelist
providerWhitelist(p) ==
    LET pw == cfg.ProviderWhitelist
        name == ToLower(p.Name)
        kind == ToLower(p.Kind)
    IN IF name \in DOMAIN pw /\ Len(pw[name]) > 0 THEN pw[name]
       ELSE IF kind \in DOMAIN pw /\ Len(pw[kind]) > 0 THEN pw[kind]
       ELSE cfg.Whitelist

\* buildWhitelistSet: the trimmed, non-blank entries; {} is the nil map too.
buildWhitelistSet(list) ==
    IF Len(list) = 0 THEN {}
    ELSE {TrimSpace(list[i]) : i \in 1..Len(list)} \ {""}

\* filterModels
filterModels(models, whitelist) ==
    IF Len(models) = 0 THEN <<>>
    ELSE IF whitelist = {} THEN models
    ELSE LET Listed(m) == m.Name \in whitelist IN SelectSeq(models, Listed)

\* What ListModels may return within the command's 10 s: an error (a failure
\* or the timeout), no model, or the provider's two models.
ListModels ==
    {[err |-> TRUE, models |-> <<>>],
     [err |-> FALSE, models |-> <<>>],
     [err |-> FALSE, models |-> <<[Name |-> "a"], [Name |-> "b"]>>]}

\* The rows Update appends for a provider's error, for its empty list and for
\* one of its models.
ErrorRow(name) ==
    [Display |-> <<name, "error">>, Provider |-> "", ModelName |-> "", Selectable |-> FALSE]
NoMatchRow(name) ==
    [Display |-> <<name, "no models match filter">>, Provider |-> "", ModelName |-> "",
     Selectable |-> FALSE]
ModelRow(name, entry) ==
    [Display |-> <<name, entry.Name>>, Provider |-> name, ModelName |-> entry.Name,
     Selectable |-> TRUE]

\* ensureCatalogSelection
ensureCatalogSelection(cat) ==
    IF Len(cat.rows) = 0 THEN [cat EXCEPT !.selection = 0]
    ELSE LET sel == IF cat.selection >= Len(cat.rows) THEN Len(cat.rows) - 1
                    ELSE cat.selection
             selectable == {i \in 1..Len(cat.rows) : cat.rows[i].Selectable}
         IN IF cat.rows[sel + 1].Selectable \/ selectable = {}
            THEN [cat EXCEPT !.selection = sel]
            ELSE [cat EXCEPT !.selection =
                     (CHOOSE i \in selectable : \A j \in selectable : i <= j) - 1]

\* Update, enter key with "/model" in the composer: showModelCatalog opens an
\* empty catalog and starts one fetchModelsCmd per provider.
ShowModelCatalog ==
    /\ fetched < MaxFetches
    /\ fetched' = fetched + 1
    /\ catalog' = [visible |-> TRUE, rows |-> <<>>, selection |-> 0,
                   loading |-> {Providers[i].Name : i \in DOMAIN Providers}]
    /\ messages' = messages \o
          [i \in DOMAIN Providers |-> Plain(Own("Fetching models from") \o Own(Providers[i].Name))]
    /\ fetching' = fetching \cup
          {[gen |-> fetched + 1, provider |-> Providers[i].Name,
            whitelist |-> buildWhitelistSet(providerWhitelist(Providers[i]))] :
             i \in DOMAIN Providers}
    /\ applied' = {}
    /\ UNCHANGED <<cfg, pendingResponse, responseStream, pendingCancel,
                   canceled, streams, reads, inbox, escCanceled, fgVars, bgVars,
                   mirrorVars, histVars, authVars, credVars, selVars, ret>>

\* The modelFetchMsg the command of fetchModelsCmd f returns when ListModels
\* returns res: the error, or the filtered list. (gen and returned are
\* observations: the /model command the result belongs to and the list
\* ListModels returned.)
fetchModelsCmd(f, res) ==
    [gen |-> f.gen, provider |-> f.provider, err |-> res.err,
     models |-> IF res.err THEN <<>> ELSE filterModels(res.models, f.whitelist),
     returned |-> res.models]

\* The rows of a provider's result: its error row, its no-match row or one
\* row per model.
ResultRows(msg) ==
    IF msg.err THEN <<ErrorRow(msg.provider)>>
    ELSE IF Len(msg.models) = 0 THEN <<NoMatchRow(msg.provider)>>
    ELSE [i \in 1..Len(msg.models) |-> ModelRow(msg.provider, msg.models[i])]

\* A variant of Update's modelFetchMsg case that joins the fetches: a result
\* that arrives while another provider is still loading only leaves the
\* loading set, and rows are shown for the result that arrives last.
ModelFetchMsgJoins(msg) ==
    /\ applied' = applied \cup {[msg |-> msg, visible |-> catalog.visible]}
    /\ catalog' = IF catalog.visible
                  THEN ensureCatalogSelection(
                          [catalog EXCEPT
                             !.rows = IF catalog.loading \subseteq {msg.provider}
                                      THEN @ \o ResultRows(msg) ELSE @,
                             !.loading = @ \ {msg.provider}])
                  ELSE catalog
    /\ messages' = Append(messages, Plain(Own(msg.provider)))
    /\ UNCHANGED <<cfg, fetched, pendingResponse, responseStream, pendingCancel,
                   canceled, streams, reads, inbox, escCanceled, fgVars, bgVars,
                   mirrorVars, histVars, authVars, credVars, selVars, ret>>

\* A variant of Update's modelFetchMsg case that passes over an empty list.
ModelFetchMsgOmitsEmpty(msg) ==
    /\ applied' = applied \cup {[msg |-> msg, visible |-> catalog.visible]}
    /\ IF msg.err
       THEN /\ catalog' = IF catalog.visible
                          THEN ensureCatalogSelection(
                                  [catalog EXCEPT !.rows = Append(@, ErrorRow(msg.provider)),
                                                  !.loading = @ \ {msg.provider}])
                          ELSE catalog
            /\ messages' = Append(messages, Plain(Own(msg.provider) \o Own("error")))
       ELSE IF Len(msg.models) = 0
       THEN UNCHANGED <<catalog, messages>>
       ELSE /\ catalog' = IF catalog.visible
                          THEN ensureCatalogSelection(
                                  [catalog EXCEPT
                                     !.rows = @ \o [i \in 1..Len(msg.models) |->
                                                      ModelRow(msg.provider, msg.models[i])],
                                     !.loading = @ \ {msg.provider}])
                          ELSE catalog
            /\ messages' = messages \o
                  [i \in 1..Len(msg.models) |->
                      Plain(Own(msg.provider) \o Own(msg.models[i].Name))]
    /\ UNCHANGED <<cfg, fetched, pendingResponse, responseStream, pendingCancel,
                   canceled, streams, reads, inbox, escCanceled, fgVars, bgVars,
                   mirrorVars, histVars, authVars, credVars, selVars, ret>>

\* Update, modelFetchMsg.
ModelFetchMsg(msg) ==
    /\ applied' = applied \cup {[msg |-> msg, visible |-> catalog.visible]}
    /\ IF msg.err
       THEN /\ catalog' = IF catalog.visible
                          THEN ensureCatalogSelection(
                                  [catalog EXCEPT !.rows = Append(@, ErrorRow(msg.provider)),
                                                  !.loading = @ \ {msg.provider}])
                          ELSE catalog
            /\ messages' = Append(messages, Plain(Own(msg.provider) \o Own("error")))
       ELSE IF Len(msg.models) = 0
       THEN /\ catalog' = IF catalog.visible
                          THEN ensureCatalogSelection(
                                  [catalog EXCEPT !.rows = Append(@, NoMatchRow(msg.provider)),
                                                  !.loading = @ \ {msg.provider}])
                          ELSE catalog
            /\ messages' = Append(messages,
                                  Plain(Own(msg.provider) \o Own("no models match")))
       ELSE /\ catalog' = IF catalog.visible
                          THEN ensureCatalogSelection(
                                  [catalog EXCEPT
                                     !.rows = @ \o [i \in 1..Len(msg.models) |->
                                                      ModelRow(msg.provider, msg.models[i])],
                                     !.loading = @ \ {msg.provider}])
                          ELSE catalog
            /\ messages' = messages \o
                  [i \in 1..Len(msg.models) |->
                      Plain(Own(msg.provider) \o Own(msg.models[i].Name))]
    /\ UNCHANGED <<cfg, fetched, pendingResponse, responseStream, pendingCancel,
                   canceled, streams, reads, inbox, escCanceled, fgVars, bgVars,
                   mirrorVars, histVars, authVars, credVars, selVars, ret>>

\* A fetch command completes and Update applies the message it returns. (What
\* the command returns depends on nothing the session loop changes, so the
\* result is drawn when it is applied.)
FetchModels(f) ==
    /\ f \in fetching
    /\ fetched * Len(Providers) - Cardinality(fetching) < MaxResults
    /\ fetching' = fetching \ {f}
    /\ \E res \in ListModels : ModelFetchMsg(fetchModelsCmd(f, res))

\* ------------------------------------------------------- response stream
\* The session's stream fields as one value, for the handlers that change
\* several of them in sequence.
Sess ==
    [messages |-> messages, pendingResponse |-> pendingResponse,
     responseStream |-> responseStream, pendingCancel |-> pendingCancel,
     canceled |-> canceled]

Commit(m) ==
    /\ messages' = m.messages
    /\ pendingResponse' = m.pendingResponse
    /\ responseStream' = m.responseStream
    /\ pendingCancel' = m.pendingCancel
    /\ canceled' = m.canceled

\* finishResponseStream: cancel the pending context, clear the three fields.
finishResponseStream(m) ==
    [m EXCEPT !.canceled = @ \cup m.pendingCancel,
              !.pendingCancel = {},
              !.pendingResponse = NoResponse,
              !.responseStream = {}]

\* nextResponseChunkCmd: one more command blocked on the current stream's channel.
nextResponseChunkCmd(m, rd) ==
    [s \in StreamIds |-> IF s \in m.responseStream THEN rd[s] + 1 ELSE rd[s]]

\* A variant of beginResponseStream that does not finish the pending response.
beginResponseStreamKeepsPrevious(m, s, fails) ==
    LET blk == appendStyledHistoryBlockRef(m.messages, AssistantTitle, <<Own("...")>>)
        m2 == [m EXCEPT !.messages = blk.msgs,
                        !.pendingResponse =
                            [active |-> TRUE, block |-> blk.ref, buffer |-> <<>>],
                        !.pendingCancel = {s}]
    IN IF fails
       THEN LET m3 == finishResponseStream(m2) IN
            [m3 EXCEPT !.messages = Append(@, Plain(From(s, "error")))]
       ELSE [m2 EXCEPT !.responseStream = {s}]

\* A variant of beginResponseStream that, when StreamChat fails, appends the
\* error without finishing the response it has begun.
beginResponseStreamFailureKeepsBlock(m, s, fails) ==
    LET m1 == IF m.pendingResponse.active THEN finishResponseStream(m) ELSE m
        blk == appendStyledHistoryBlockRef(m1.messages, AssistantTitle, <<Own("...")>>)
        m2 == [m1 EXCEPT !.messages = blk.msgs,
                         !.pendingResponse =
                             [active |-> TRUE, block |-> blk.ref, buffer |-> <<>>],
                         !.pendingCancel = {s}]
    IN IF fails
       THEN [m2 EXCEPT !.messages = Append(@, Plain(From(s, "error")))]
       ELSE [m2 EXCEPT !.responseStream = {s}]

\* beginResponseStream for StreamChat call s, which fails or returns a channel.
beginResponseStream(m, s, fails) ==
    LET m1 == IF m.pendingResponse.active THEN finishResponseStream(m) ELSE m
        blk == appendStyledHistoryBlockRef(m1.messages, AssistantTitle, <<Own("...")>>)
        m2 == [m1 EXCEPT !.messages = blk.msgs,
                         !.pendingResponse =
                             [active |-> TRUE, block |-> blk.ref, buffer |-> <<>>],
                         !.pendingCancel = {s}]
    IN IF fails
       THEN LET m3 == finishResponseStream(m2) IN
            [m3 EXCEPT !.messages = Append(@, Plain(From(s, "error")))]
       ELSE [m2 EXCEPT !.responseStream = {s}]

\* Update, enter key with a prompt in the composer: submitInput appends the
\* user's block and begins the response stream.
SubmitInput(fails) ==
    /\ DOMAIN streams # StreamIds
    /\ LET s == Cardinality(DOMAIN streams) + 1
           usr == appendStyledHistoryBlockRef(messages, UserTitle, <<Own("prompt")>>)
           m == beginResponseStream([Sess EXCEPT !.messages = usr.msgs], s, fails)
       IN /\ Commit(m)
          /\ streams' = (s :> [sent |-> 0, closed |-> fails, recv |-> 0, out |-> <<>>])
                             @@ streams
          /\ reads' = nextResponseChunkCmd(m, reads)
    /\ UNCHANGED <<inbox, escCanceled, fgVars, bgVars, ret, catVars, mirrorVars, histVars, authVars, credVars, selVars>>

\* Update, esc key (palette closed): hide the catalog when it is visible, else
\* cancel the foreground command, else the pending response, else reset the
\* composer.
Esc ==
    /\ IF catalog.visible
       THEN /\ catalog' = [catalog EXCEPT !.visible = FALSE]
            /\ UNCHANGED <<sessVars, fgVars>>
       ELSE IF foreground # {}
       THEN /\ foreground' = {}
            /\ fg' = [c \in Callers |->
                        IF c \in foreground THEN [fg[c] EXCEPT !.done = TRUE] ELSE fg[c]]
            /\ fgCancelHits' = Bump(fgCancelHits)
            /\ UNCHANGED <<sessVars, catalog>>
       ELSE IF pendingResponse.active
       THEN /\ Commit([finishResponseStream(Sess) EXCEPT
                          !.messages = Append(@, Plain(Own("canceled response stream")))])
            /\ escCanceled' = escCanceled \cup pendingCancel
            /\ UNCHANGED <<streams, reads, inbox, fgVars, catalog>>
       ELSE UNCHANGED <<sessVars, fgVars, catalog>>
    /\ UNCHANGED <<bgVars, ret, cfg, fetching, fetched, applied, mirrorVars, histVars, authVars, credVars, selVars>>

\* The text chunks the providers of the streams in S have sent.
RECURSIVE TextsSent(_)
TextsSent(S) ==
    IF S = {} THEN 0
    ELSE LET s == CHOOSE x \in S : TRUE IN streams[s].sent + TextsSent(S \ {s})

\* The chunks a provider may send on stream s's channel: text, a done chunk, an
\* error chunk, or text with the done flag.
Chunks(s) ==
    LET texts == IF TextsSent(DOMAIN streams) < MaxChunks
                 THEN {From(s, "x"), From(s, "\n")} ELSE {}
    IN {[Text |-> t, Err |-> FALSE, Done |-> d] : t \in texts, d \in BOOLEAN}
         \cup {[Text |-> <<>>, Err |-> FALSE, Done |-> TRUE],
               [Text |-> <<>>, Err |-> TRUE, Done |-> FALSE]}

\* The command of nextResponseChunkCmd: receive from the channel, which is
\* closed (a done message) or on which the provider sends its next chunk,
\* closing the channel after a done or error chunk.
ReceiveChunk(s) ==
    /\ s \in DOMAIN streams
    /\ reads[s] > 0
    /\ reads' = [reads EXCEPT ![s] = @ - 1]
    /\ \E chunk \in IF streams[s].closed
                    THEN {[Text |-> <<>>, Err |-> FALSE, Done |-> TRUE]}
                    ELSE Chunks(s) :
          /\ inbox' = inbox \cup
                {[from |-> s, n |-> streams[s].recv + 1, Text |-> chunk.Text,
                  Err |-> chunk.Err, Done |-> chunk.Done]}
          /\ streams' = [streams EXCEPT
                ![s].recv = @ + 1,
                ![s].sent = IF chunk.Text # <<>> THEN @ + 1 ELSE @,
                ![s].out = @ \o chunk.Text,
                ![s].closed = @ \/ chunk.Err \/ chunk.Done]
    /\ UNCHANGED <<messages, pendingResponse, responseStream, pendingCancel,
                   canceled, escCanceled, fgVars, bgVars, ret, catVars, mirrorVars, histVars, authVars, credVars, selVars>>

\* A variant of Update's responseChunkMsg case that records an error chunk and
\* goes on reading the stream.
ResponseChunkMsgErrorContinues(msg) ==
    /\ msg \in inbox
    /\ inbox' = inbox \ {msg}
    /\ IF ~pendingResponse.active
       THEN UNCHANGED <<messages, pendingResponse, responseStream, pendingCancel,
                        canceled, reads>>
       ELSE IF msg.Err
       THEN /\ Commit([Sess EXCEPT !.messages = Append(@, Plain(From(msg.from, "error")))])
            /\ reads' = nextResponseChunkCmd(Sess, reads)
       ELSE LET buffer == pendingResponse.buffer \o msg.Text
                rep == replaceHistoryBlock(messages, pendingResponse.block,
                                           AssistantTitle, Split(buffer))
                m == IF msg.Text # <<>>
                     THEN [Sess EXCEPT !.messages = rep.msgs,
                                       !.pendingResponse.buffer = buffer,
                                       !.pendingResponse.block = rep.ref]
                     ELSE Sess
            IN IF msg.Done
               THEN Commit(finishResponseStream(m)) /\ UNCHANGED reads
               ELSE Commit(m) /\ reads' = nextResponseChunkCmd(m, reads)
    /\ UNCHANGED <<streams, escCanceled, fgVars, bgVars, ret, catVars, mirrorVars, histVars, authVars, credVars, selVars>>

\* A variant of Update's responseChunkMsg case that finishes on a done chunk
\* before looking at the chunk's text.
ResponseChunkMsgDoneDropsText(msg) ==
    /\ msg \in inbox
    /\ inbox' = inbox \ {msg}
    /\ IF ~pendingResponse.active
       THEN UNCHANGED <<messages, pendingResponse, responseStream, pendingCancel,
                        canceled, reads>>
       ELSE IF msg.Err
       THEN /\ Commit(finishResponseStream(
                         [Sess EXCEPT !.messages = Append(@, Plain(From(msg.from, "error")))]))
            /\ UNCHANGED reads
       ELSE IF msg.Done
       THEN Commit(finishResponseStream(Sess)) /\ UNCHANGED reads
       ELSE LET buffer == pendingResponse.buffer \o msg.Text
                rep == replaceHistoryBlock(messages, pendingResponse.block,
                                           AssistantTitle, Split(buffer))
                m == IF msg.Text # <<>>
                     THEN [Sess EXCEPT !.messages = rep.msgs,
                                       !.pendingResponse.buffer = buffer,
                                       !.pendingResponse.block = rep.ref]
                     ELSE Sess
            IN Commit(m) /\ reads' = nextResponseChunkCmd(m, reads)
    /\ UNCHANGED <<streams, escCanceled, fgVars, bgVars, ret, catVars, mirrorVars, histVars, authVars, credVars, selVars>>

\* Update, responseChunkMsg with text: the text joins the buffer and the
\* block is rendered again from the whole buffer.
appendResponseText(m, text) ==
    LET buffer == m.pendingResponse.buffer \o text
        rep == replaceHistoryBlock(m.messages, m.pendingResponse.block,
                                   AssistantTitle, Split(buffer))
    IN IF text # <<>>
       THEN [m EXCEPT !.messages = rep.msgs,
                      !.pendingResponse.buffer = buffer,
                      !.pendingResponse.block = rep.ref]
       ELSE m

\* Update, responseChunkMsg. (m is the model once the chunk's text has been
\* applied.)
ResponseChunkMsg(msg) ==
    /\ msg \in inbox
    /\ inbox' = inbox \ {msg}
    /\ IF ~pendingResponse.active
       THEN UNCHANGED <<messages, pendingResponse, responseStream, pendingCancel,
                        canceled, reads>>
       ELSE IF msg.Err
       THEN /\ Commit(finishResponseStream(
                         [Sess EXCEPT !.messages = Append(@, Plain(From(msg.from, "error")))]))
            /\ UNCHANGED reads
       ELSE \E m \in {appendResponseText(Sess, msg.Text)} :
               IF msg.Done
               THEN Commit(finishResponseStream(m)) /\ UNCHANGED reads
               ELSE Commit(m) /\ reads' = nextResponseChunkCmd(m, reads)
    /\ UNCHANGED <<streams, escCanceled, fgVars, bgVars, ret, catVars, mirrorVars, histVars, authVars, credVars, selVars>>

StreamNext ==
    \/ \E fails \in BOOLEAN : SubmitInput(fails)
    \/ Esc
    \/ \E s \in StreamIds : ReceiveChunk(s)
    \/ \E msg \in inbox : ResponseChunkMsg(msg)

StreamSpec == Init /\ [][StreamNext]_vars

\* ------------------------------------------------- catalog: up, down, enter
\* strings.EqualFold, on the names of the model.
EqualFold(a, b) == ToLower(a) = ToLower(b)

\* model.providerByName: the providers of the registry called name.
providerByName(name) ==
    {Providers[i] : i \in {j \in DOMAIN Providers : EqualFold(Providers[j].Name, name)}}

\* The loop of moveCatalogSelection from index idx with attempts tries left:
\* the index of the selectable row it stops at, or -1.
RECURSIVE moveAttempts(_, _, _, _)
moveAttempts(rows, idx, delta, attempts) ==
    IF attempts = 0 THEN -1
    ELSE LET stepped == idx + delta
             next == IF stepped < 0 THEN Len(rows) - 1
                     ELSE IF stepped >= Len(rows) THEN 0
                     ELSE stepped
         IN IF rows[next + 1].Selectable THEN next
            ELSE moveAttempts(rows, next, delta, attempts - 1)

\* A variant of the loop that stops at the first row it steps to.
moveCatalogSelectionAnyRow(cat, delta) ==
    IF ~cat.visible \/ Len(cat.rows) = 0 THEN -1
    ELSE LET stepped == cat.selection + delta
         IN IF stepped < 0 THEN Len(cat.rows) - 1
            ELSE IF stepped >= Len(cat.rows) THEN 0
            ELSE stepped

\* moveCatalogSelection: the new selection, or -1 where the code returns false.
moveCatalogSelection(cat, delta) ==
    IF ~cat.visible \/ Len(cat.rows) = 0 THEN -1
    ELSE moveAttempts(cat.rows, cat.selection, delta, Len(cat.rows))

\* Update, up key (delta -1) or down key (delta 1) while the catalog is
\* visible: move the selection; a key that moves nothing goes to the composer.
CatalogKeyMove(delta) ==
    /\ catalog.visible
    /\ LET idx == moveCatalogSelection(catalog, delta) IN
         /\ catalog' = IF idx >= 0 THEN [catalog EXCEPT !.selection = idx] ELSE catalog
         /\ ret' = RetOf("moveCatalogSelection", 0, idx >= 0, delta, "nil", {})
    /\ UNCHANGED <<cfg, fetching, fetched, applied, sessVars, fgVars, bgVars, mirrorVars,
                   histVars, authVars, credVars, selVars>>

\* Update, enter key while the catalog is visible and the composer is empty:
\* activateSelectedCatalogModel; when it returns false the key goes on to
\* submitInput, which does nothing for an empty composer.
CatalogKeyEnter ==
    /\ catalog.visible
    /\ IF Len(catalog.rows) = 0 \/ ~catalog.rows[catalog.selection + 1].Selectable
       THEN /\ ret' = RetOf("activateSelectedCatalogModel", 0, FALSE, 0, "nil", {})
            /\ UNCHANGED <<catalog, messages, selVars>>
       ELSE LET row == catalog.rows[catalog.selection + 1]
                found == providerByName(row.Provider)
            IN /\ ret' = RetOf("activateSelectedCatalogModel", 0, TRUE, 0, "nil", {})
               /\ IF found = {}
                  THEN /\ messages' = Append(messages,
                                         Plain(Own("provider not recognized")))
                       /\ UNCHANGED <<catalog, selVars>>
                  ELSE \E pr \in found :
                          /\ activeProvider' = pr.Name
                          /\ defaultModel' = row.ModelName
                          /\ messages' = Append(messages,
                                 Plain(Own("Using") \o Own(row.ModelName) \o Own(pr.Name)))
                          /\ catalog' = [catalog EXCEPT !.visible = FALSE]
    /\ UNCHANGED <<cfg, fetching, fetched, applied, pendingResponse, responseStream,
                   pendingCancel, canceled, streams, reads, inbox, escCanceled, fgVars,
                   bgVars, mirrorVars, histVars, authVars, credVars>>

\* The catalog with the keys that act on it, for a user who enters /model
\* again only when the results of the fetches before have arrived.
SelectNext ==
    \/ fetching = {} /\ ShowModelCatalog
    \/ \E f \in fetching : FetchModels(f)
    \/ Esc
    \/ \E delta \in {-1, 1} : CatalogKeyMove(delta)
    \/ CatalogKeyEnter

SelectSpec == CatalogInit /\ [][SelectNext]_vars

\* The catalog: /model, the fetch commands, their results, esc.
CatalogNext ==
    \/ ShowModelCatalog
    \/ \E f \in fetching : FetchModels(f)
    \/ Esc

CatalogSpec == CatalogInit /\ [][CatalogNext]_vars

\* One /model command under each of the configurations.
WhitelistNext ==
    \/ fetched = 0 /\ ShowModelCatalog
    \/ \E f \in fetching : FetchModels(f)

WhitelistSpec == WhitelistInit /\ [][WhitelistNext]_vars

\* The process of a job fails: it exits with a status other than 0, or
\* cmd.Run returns some other error.
JobFails(id) == WorkerCmdRun(id) /\ worker'[id].err # "nil"

\* The provider of a stream never completes it: it sends text, all of it on
\* one line, or an error.
StreamUnfinished(s) ==
    /\ ReceiveChunk(s)
    /\ \A msg \in inbox' \ inbox : ~msg.Done /\ msg.Text # From(s, "\n")

\* The fetch of the first provider fails; the second provider's returns
\* whatever it returns.
FirstFetchFails(f) ==
    /\ FetchModels(f)
    /\ f.provider = Providers[1].Name => \A a \in applied' \ applied : a.msg.err

\* The session loop with its three message sources side by side, each
\* meeting its local error: one prompt whose response streams in until the
\* provider reports an error, one background job that fails and whose events
\* arrive, and one /model command the first provider's fetch of which fails.
LoopNext ==
    \/ streams = <<>> /\ SubmitInput(FALSE)
    \/ \E s \in StreamIds : StreamUnfinished(s)
    \/ \E msg \in inbox : ResponseChunkMsg(msg)
    \/ uuids = {} /\ startBackground
    \/ \E id \in JobIds : JobFails(id)
    \/ \E id \in JobIds : WorkerRecord(id)
    \/ \E id \in JobIds : WorkerEmit(id)
    \/ ListenExecEvents
    \/ ExecEventMsg
    \/ fetched = 0 /\ ShowModelCatalog
    \/ \E f \in fetching : FirstFetchFails(f)

LoopSpec == Init /\ [][LoopNext]_vars

\* ------------------------------------------------- response stream: claims
\* The streams whose text is in the active block's buffer.
BufferOrigins == {pendingResponse.buffer[i][1] : i \in 1..Len(pendingResponse.buffer)}

\* C1: when stream B is begun while stream A is streaming, no chunk message
\* that came from A's channel is applied to B's block: the active block's
\* buffer only ever holds text sent on the active stream's own channel.
C1_BufferHoldsOwnStreamOnly ==
    pendingResponse.active => BufferOrigins \subseteq pendingCancel

\* C2: once the active stream has been canceled by esc, no chunk of that
\* stream delivered afterwards is applied to session state: no later active
\* block ever holds text of a stream canceled by esc.
C2_CanceledChunksNeverApplied ==
    pendingResponse.active => BufferOrigins \cap escCanceled = {}

\* The streams whose context has not been canceled.
Uncanceled == DOMAIN streams \ canceled

\* C13: at most one StreamBlock is active and at most one provider stream has
\* a context that is not canceled, the active one; every stream started
\* before the active one has had its context canceled.
C13_AtMostOneLiveStream ==
    /\ Cardinality(pendingCancel) <= 1
    /\ pendingResponse.active <=> pendingCancel # {}
    /\ responseStream \subseteq pendingCancel
    /\ Cardinality(Uncanceled) <= 1
    /\ Uncanceled = pendingCancel
    /\ \A a \in pendingCancel : \A s \in DOMAIN streams : s < a => s \in canceled

\* A second stream is active while a read of the first, canceled, stream is
\* still outstanding.
C13_Witness ==
    /\ pendingResponse.active
    /\ \E a \in pendingCancel : \E s \in canceled : s < a /\ reads[s] > 0

\* The step applies message msg to an active stream.
Applies(msg) == msg \in inbox /\ inbox' = inbox \ {msg} /\ pendingResponse.active

BlockLines(text) ==
    historyBlockLines(AssistantTitle, IF text = <<>> THEN <<Own("...")>> ELSE Split(text))

\* C15: when a done chunk, or the done message of a closed channel, is applied
\* to the active stream, the chunk's text is applied first: the block stays
\* in the transcript where it was, with the text accumulated including this
\* chunk's, and the rest of the transcript is untouched; no StreamBlock is
\* active afterwards, the context is canceled, and no read is requested.
C15_DoneChunkCompletesStream ==
    [][\A msg \in inbox : (Applies(msg) /\ ~msg.Err /\ msg.Done) =>
          LET lines == BlockLines(pendingResponse.buffer \o msg.Text)
              start == pendingResponse.block.start
              end == start + pendingResponse.block.length
          IN /\ messages' = SubSeq(messages, 1, start) \o lines
                               \o SubSeq(messages, end + 1, Len(messages))
             /\ pendingResponse' = NoResponse
             /\ responseStream' = {}
             /\ pendingCancel' = {}
             /\ pendingCancel \subseteq canceled'
             /\ reads' = reads
             /\ streams' = streams]_vars

\* A stream that accumulated text over two chunks, the second one carrying the
\* done flag, has completed: its block, with both texts, ends the transcript.
C15_Witness ==
    /\ ~pendingResponse.active
    /\ \E s \in canceled :
          /\ streams[s].sent = 2
          /\ streams[s].recv = 2
          /\ reads[s] = 0
          /\ \A msg \in inbox : msg.from # s
          /\ Len(messages) >= 3
          /\ SubSeq(messages, Len(messages) - 2, Len(messages))
                = BlockLines(From(s, "x") \o From(s, "x"))

\* ----------------------------------------------------------- catalog: claims
\* The elements of a sequence.
Range(seq) == {seq[i] : i \in 1..Len(seq)}

\* The results of the latest /model command that Update has applied.
Mine == {a \in applied : a.msg.gen = fetched}

\* Both results of the latest /model command have been applied to the catalog
\* it opened: the first provider's, with two models, and the second's, an error.
TwoModelsAndAnError ==
    /\ catalog.visible
    /\ Cardinality(Mine) = Len(Providers)
    /\ \A a \in Mine : a.visible
    /\ \E a \in Mine :
          a.msg.provider = Providers[1].Name /\ ~a.msg.err /\ Len(a.msg.models) = 2
    /\ \E a \in Mine : a.msg.provider = Providers[2].Name /\ a.msg.err

\* C16: for a catalog fetch over P1, which returns two models, and P2, which
\* fails or times out, once both results have been applied the catalog's rows
\* are exactly P1's two selectable rows and one non-selectable error row for
\* P2, in whichever order the two results arrived.
C16_CatalogRowsExact ==
    TwoModelsAndAnError =>
        /\ Len(catalog.rows) = 3
        /\ Range(catalog.rows) =
              {ModelRow(Providers[1].Name, [Name |-> "a"]),
               ModelRow(Providers[1].Name, [Name |-> "b"]),
               ErrorRow(Providers[2].Name)}

\* C18: when Update applies, to a visible catalog, a provider's result whose
\* list is empty after the whitelist filter, the catalog gets exactly one more
\* row, the non-selectable "no models match" row of that provider, the
\* catalog stays visible and the provider leaves the loading set.
C18_EmptyResultGetsRow ==
    [][\A a \in applied' \ applied :
          (~a.msg.err /\ Len(a.msg.models) = 0 /\ a.visible) =>
             /\ catalog'.rows = Append(catalog.rows, NoMatchRow(a.msg.provider))
             /\ ~catalog'.rows[Len(catalog'.rows)].Selectable
             /\ catalog'.visible
             /\ a.msg.provider \notin catalog'.loading]_vars

\* The whitelist left none of the two models a provider returned, and the
\* visible catalog shows the provider's "no models match" row.
C18_Witness ==
    /\ catalog.visible
    /\ \E a \in Mine :
          /\ a.visible
          /\ ~a.msg.err
          /\ Len(a.msg.returned) = 2
          /\ Len(a.msg.models) = 0
          /\ NoMatchRow(a.msg.provider) \in Range(catalog.rows)
          /\ a.msg.provider \notin catalog.loading

\* The registry's provider of the given name.
ProviderNamed(name) == CHOOSE p \in Range(Providers) : p.Name = name

\* The keys of provider_whitelist that are the given name, letter case aside,
\* and have a non-empty list.
ListedUnder(name) ==
    {k \in DOMAIN cfg.ProviderWhitelist :
        ToLower(k) = ToLower(name) /\ Len(cfg.ProviderWhitelist[k]) > 0}

\* The whitelist of provider p by the rule of precedence: the list under its
\* name, else the list under its kind, else the global one.
ConfiguredWhitelist(p) ==
    IF ListedUnder(p.Name) # {}
    THEN cfg.ProviderWhitelist[CHOOSE k \in ListedUnder(p.Name) : TRUE]
    ELSE IF ListedUnder(p.Kind) # {}
    THEN cfg.ProviderWhitelist[CHOOSE k \in ListedUnder(p.Kind) : TRUE]
    ELSE cfg.Whitelist

\* The models of a returned list that a whitelist lets through.
Allowed(returned, list) ==
    LET set == buildWhitelistSet(list)
        Listed(m) == m.Name \in set
    IN IF set = {} THEN returned ELSE SelectSeq(returned, Listed)

\* C19: the whitelist applied to a provider's models is the non-empty list
\* configured under the provider's name, else the one under its kind, else
\* the global whitelist; the models emitted for the provider, and its rows in
\* the catalog, are the returned models on that list, or all of them when
\* the list has no entry.
C19_WhitelistPrecedence ==
    \A a \in applied :
        ~a.msg.err =>
            LET p == ProviderNamed(a.msg.provider)
                allowed == Allowed(a.msg.returned, ConfiguredWhitelist(p))
            IN /\ a.msg.models = allowed
               /\ {r.ModelName : r \in {x \in Range(catalog.rows) : x.Provider = p.Name}}
                     = {m.Name : m \in Range(allowed)}

\* ------------------------------------------------- claims on empty commands
\* C20: Run with an empty command returns the error "command is required"
\* and leaves the executor as it was, whether the request asks for a
\* background job or not: the registry, the cancel functions, the foreground
\* slot and the event channel are unchanged, and no job ID is returned.  The
\* error is returned in every state of the executor.
C20_EmptyCommandRejected ==
    /\ [][\A background \in BOOLEAN :
             Run(1, "", background) =>
                 /\ ret'.op = "Run" /\ ~ret'.ok /\ ret'.id = 0
                 /\ ret'.err = "command is required"
                 /\ UNCHANGED <<jobs, cancels, foreground, events, uuids>>]_vars
    /\ [][(ret'.op = "Run" /\ ret'.err = "command is required") =>
             UNCHANGED <<jobs, cancels, foreground, events, uuids>>]_vars
    /\ [](\A background \in BOOLEAN : ENABLED Run(1, "", background))

\* An empty command has been rejected while a foreground run occupies the
\* slot and a background job is registered with its cancel function.
C20_Witness ==
    /\ ret.op = "Run" /\ ret.err = "command is required"
    /\ foreground = {1}
    /\ jobs # <<>>
    /\ cancels # {}

\* --------------------------------------------- claims on the session loop
\* The active stream as the session holds it, with the lines of its block.
ActiveStream ==
    <<pendingResponse, responseStream, pendingCancel, canceled, reads, inbox,
      IF pendingResponse.active
      THEN SubSeq(messages, pendingResponse.block.start + 1,
                  pendingResponse.block.start + pendingResponse.block.length)
      ELSE <<>>>>

\* C17: an error local to one producer leaves the others untouched.  Applying
\* the event of a failed job changes neither the active stream (its fields,
\* its pending reads and messages, the lines of its block) nor the catalog
\* nor the fetches in flight, and the listener is armed again.  Applying a
\* stream's error chunk changes neither the job mirror nor the catalog nor
\* the fetches in flight nor anything of the executor.  Applying a fetch
\* error changes neither the job mirror nor the active stream, keeps the rows
\* the catalog already had, and leaves the fetches of the other providers in
\* flight.  In every state each message on its way to Update can be applied.
C17_LocalErrorsStayLocal ==
    /\ [][(ExecEventMsg /\ execEvent[1].Status = JobFailed) =>
             /\ ActiveStream' = ActiveStream
             /\ UNCHANGED <<catalog, fetching, streams>>
             /\ execEvent' = <<>>]_vars
    /\ [][\A msg \in inbox :
             (msg.Err /\ ResponseChunkMsg(msg)) =>
                 UNCHANGED <<modelJobs, execEvent, catalog, fetching,
                             jobs, cancels, events, worker, bgCtx>>]_vars
    /\ [][\A f \in fetching :
             (FirstFetchFails(f) /\ \E a \in applied' \ applied : a.msg.err) =>
                 /\ UNCHANGED <<modelJobs, execEvent, streams>>
                 /\ ActiveStream' = ActiveStream
                 /\ SubSeq(catalog'.rows, 1, Len(catalog.rows)) = catalog.rows
                 /\ fetching' = fetching \ {f}]_vars
    /\ [](\A msg \in inbox : ENABLED ResponseChunkMsg(msg))
    /\ [](execEvent # <<>> => ENABLED ExecEventMsg)
    /\ [](\A f \in fetching : ENABLED FirstFetchFails(f))

\* The event of a failed job and the fetch error of one provider have been
\* applied while a response streams in and the catalog shows the models of
\* the other provider.
C17_Witness ==
    /\ \E id \in DOMAIN modelJobs : modelJobs[id].Status = JobFailed
    /\ pendingResponse.active /\ pendingResponse.buffer # <<>>
    /\ catalog.visible
    /\ \E i, j \in 1..Len(catalog.rows) :
          /\ catalog.rows[i] = ErrorRow(Providers[1].Name)
          /\ catalog.rows[j].Selectable
    /\ inbox # {}

\* ----------------------------------------------- claims on foreground runs
\* C21: a foreground Run whose process starts and exits with a nonzero code
\* returns that code with no error, whereas a Run whose process cannot be
\* spawned returns an error.
C21_NonzeroExitIsData ==
    [][\A c \in Callers :
          RunForegroundEnd(c) =>
              /\ fg[c].err = "exit" =>
                    (ret'.err = "nil" /\ ret'.code = ExitCodeOf("exit"))
              /\ fg[c].err = "spawn" => ret'.err # "nil"]_vars

\* ----------------------------------------------- claims on spawn failures
\* Job id's process could not be spawned and the worker has recorded it.
SpawnFailed(id) == id \in DOMAIN worker /\ Recorded(id) /\ worker[id].err = "spawn"

\* C22: a background Run returns a job ID and no error, whatever becomes of
\* the process; a job whose process cannot be spawned is recorded as Failed
\* with a non-empty Error text and without a cancel function, and a CancelJob
\* on it from then on returns false.
C22_SpawnFailureRecorded ==
    /\ [][(ret'.op = "Run" /\ ret'.id # 0) =>
             (ret'.ok /\ ret'.err = "nil" /\ ret'.id \in DOMAIN jobs')]_vars
    /\ [](\A id \in DOMAIN worker :
             SpawnFailed(id) =>
                 /\ jobs[id].Status = JobFailed
                 /\ jobs[id].Error # ""
                 /\ id \notin cancels)
    /\ [][\A id \in JobIds :
             (SpawnFailed(id) /\ CancelJob(id)) => ~ret'.ok]_vars

\* CancelJob has returned false for a job recorded as failed to spawn.
C22_Witness ==
    /\ ret.op = "CancelJob" /\ ~ret.ok
    /\ SpawnFailed(ret.id)
    /\ cancelHits[ret.id] = 0

\* C23: a foreground Run that is blocked in cmd.Run eventually returns once
\* CancelForeground has returned true during it or its caller's context has
\* been canceled; and on every return path the run leaves the foreground slot
\* empty.
C23_CancelUnblocksForeground ==
    /\ \A c \in Callers :
          (/\ fg[c].pc = "running"
           /\ fg[c].done \/ (ret.op = "CancelForeground" /\ ret.ok))
             ~> (fg[c].pc = "idle")
    /\ [][\A c \in Callers : RunForegroundEnd(c) => foreground' = {}]_vars

\* ------------------------------------------------------------ history store
\* A Go string is a sequence of bytes; a directory name may hold a byte that
\* is not valid UTF-8.  Strings are modelled as sequences of characters, one
\* of which stands for such a byte and one for U+FFFD, the replacement rune.
BadByte == "\\xff"
Replacement == "\\ufffd"

\* The working directories pfui is started in (os.Getwd), and the texts the
\* composer hands over as title and summary (runes, hence valid UTF-8).
Projects == {<<"p">>, <<"p", BadByte>>}
Texts == {<<"t">>, <<"u">>}
SessionIds == 1..MaxSessions

\* encoding/json writes a string coerced to valid UTF-8: every invalid byte
\* becomes the replacement rune.
ToValidUTF8(str) ==
    [i \in 1..Len(str) |-> IF str[i] = BadByte THEN Replacement ELSE str[i]]

\* The IDs of a store in the order json.MarshalIndent writes a map's keys.
RECURSIVE SortedKeys(_)
SortedKeys(ids) ==
    IF ids = {} THEN <<>>
    ELSE LET least == CHOOSE id \in ids : \A o \in ids : id <= o
         IN <<least>> \o SortedKeys(ids \ {least})

\* writeStore's json.MarshalIndent: the members of the object, each session
\* with its strings as JSON strings.
Marshal(store) ==
    LET keys == SortedKeys(DOMAIN store) IN
    [i \in 1..Len(keys) |->
        [key |-> keys[i],
         value |-> [ID |-> store[keys[i]].ID,
                    Project |-> ToValidUTF8(store[keys[i]].Project),
                    Title |-> ToValidUTF8(store[keys[i]].Title),
                    Summary |-> ToValidUTF8(store[keys[i]].Summary),
                    UpdatedAt |-> store[keys[i]].UpdatedAt]]]

\* json.Unmarshal into a map: each member's session under the member's key.
Unmarshal(data) ==
    [id \in {data[i].key : i \in 1..Len(data)} |->
        data[CHOOSE i \in 1..Len(data) : data[i].key = id].value]

\* loadStore: an absent or empty file is an empty map, any other is what
\* json.Unmarshal reads from it.
loadStore(data) ==
    IF Len(data) = 0 THEN [id \in {} |-> <<>>] ELSE Unmarshal(data)

\* saveSession: load the store, put the session under its ID, write the store.
saveSession(data, sess) ==
    LET store == loadStore(data) IN
    Marshal((sess.ID :> sess) @@ store)

\* Get, as a function of the file: the session stored under id, if any.
get(data, id) ==
    LET store == loadStore(data) IN
    IF id \in DOMAIN store
    THEN [found |-> TRUE, session |-> store[id]]
    ELSE [found |-> FALSE, session |-> <<>>]

\* The sessions of a set in the order List's sort.Slice leaves them in:
\* latest UpdatedAt first.
RECURSIVE ByUpdatedAt(_)
ByUpdatedAt(sessions) ==
    IF sessions = {} THEN <<>>
    ELSE LET latest == CHOOSE x \in sessions :
                          \A o \in sessions : o.UpdatedAt <= x.UpdatedAt
         IN <<latest>> \o ByUpdatedAt(sessions \ {latest})

\* List, as a function of the file: the sessions of the project (of every
\* project when the project is empty).
list(data, project) ==
    LET store == loadStore(data) IN
    ByUpdatedAt({store[id] : id \in {i \in DOMAIN store :
                    project = <<>> \/ store[i].Project = project}})

\* The history package shares no state with the rest of the program.
histOther ==
    UNCHANGED <<fgVars, bgVars, sessVars, catVars, mirrorVars, authVars, credVars, selVars, ret>>

\* CreateSession(project)
CreateSession(project) ==
    /\ clock < MaxWrites
    /\ DOMAIN loadStore(historyFile) # SessionIds
    /\ LET sess == [ID |-> NewString(DOMAIN loadStore(historyFile)),
                    Project |-> project, Title |-> <<"New chat">>, Summary |-> <<>>,
                    UpdatedAt |-> clock + 1]
       IN /\ historyFile' = saveSession(historyFile, sess)
          /\ held' = held \cup {sess}
          /\ histRet' = [op |-> "CreateSession", project |-> project, session |-> sess]
    /\ clock' = clock + 1
    /\ histOther

\* The session loop sets the title and summary of the session it holds and
\* calls Save, which stamps UpdatedAt on its copy and saves it.
Save(sess, title, summary) ==
    /\ clock < MaxWrites
    /\ sess \in held
    /\ LET mine == [sess EXCEPT !.Title = title, !.Summary = summary] IN
         /\ historyFile' = saveSession(historyFile, [mine EXCEPT !.UpdatedAt = clock + 1])
         /\ held' = held \cup {mine}
         /\ histRet' = [op |-> "Save", session |-> mine]
    /\ clock' = clock + 1
    /\ histOther

\* Get(id)
Get(id) ==
    /\ LET r == get(historyFile, id) IN
         /\ held' = IF r.found THEN held \cup {r.session} ELSE held
         /\ histRet' = [op |-> "Get", id |-> id, found |-> r.found, session |-> r.session]
    /\ UNCHANGED <<historyFile, clock>>
    /\ histOther

\* List(project)
List(project) ==
    /\ histRet' = [op |-> "List", project |-> project,
                   sessions |-> list(historyFile, project)]
    /\ UNCHANGED <<historyFile, clock, held>>
    /\ histOther

HistoryNext ==
    \/ \E project \in Projects : CreateSession(project)
    \/ \E sess \in held, title \in Texts, summary \in Texts : Save(sess, title, summary)
    \/ \E id \in SessionIds : Get(id)
    \/ \E project \in Projects \cup {<<>>} : List(project)

HistorySpec == Init /\ [][HistoryNext]_vars

\* C24: the history store round-trips sessions.  After CreateSession(p) the
\* sessions List(p) returns include the created one; after Save(s), Get(s.ID)
\* returns s's Title and Summary; and saving one session leaves every other
\* stored session as it was.
C24_HistoryRoundTrip ==
    [][/\ histRet'.op = "CreateSession" =>
            \E i \in 1..Len(list(historyFile', histRet'.project)) :
                list(historyFile', histRet'.project)[i].ID = histRet'.session.ID
       /\ histRet'.op = "Save" =>
            /\ get(historyFile', histRet'.session.ID).found
            /\ get(historyFile', histRet'.session.ID).session.Title
                  = histRet'.session.Title
            /\ get(historyFile', histRet'.session.ID).session.Summary
                  = histRet'.session.Summary
       /\ histRet'.op \in {"CreateSession", "Save"} =>
            \A id \in SessionIds \ {histRet'.session.ID} :
                get(historyFile', id) = get(historyFile, id)]_vars

\* ------------------------------------------- claims on the order of chunks
IsPrefix(a, b) == Len(a) <= Len(b) /\ SubSeq(b, 1, Len(a)) = a

\* C25: within one stream chunks are applied in the order they were sent: the
\* active block's accumulated text is at every moment the concatenation, in
\* that order, of a prefix of the chunks the provider has sent on the active
\* stream's channel.
C25_ChunksInEmissionOrder ==
    pendingResponse.active =>
        \A s \in pendingCancel : IsPrefix(pendingResponse.buffer, streams[s].out)

\* The chunk reads outstanding on stream s's channel: the read commands still
\* pending and the messages read from it that Update has not yet applied.
OutstandingReads(s) == reads[s] + Cardinality({msg \in inbox : msg.from = s})

\* C26: chunk ingestion is pull-based: the next read of a stream's channel is
\* requested only after the previous chunk has been applied, so at every moment
\* at most one chunk read is outstanding (pending, or delivered but not yet
\* applied) on the active stream's channel.
C26_AtMostOneOutstandingRead ==
    pendingResponse.active => \A s \in responseStream : OutstandingReads(s) <= 1

\* ------------------------------------------ the provider's reader goroutine
\* The reader goroutine of StreamChat: ReadString returns io.EOF, so the reader
\* returns without sending and its deferred close(ch) closes the channel.  It
\* is the one step the reader takes by itself: the channel is unbuffered, so
\* every send (ch <- chunk, the error chunk of a failed ReadString included)
\* waits in ReceiveChunk for a read command.
ReaderEOF(s) ==
    /\ s \in DOMAIN streams
    /\ ~streams[s].closed
    /\ streams' = [streams EXCEPT ![s].closed = TRUE]
    /\ UNCHANGED <<messages, pendingResponse, responseStream, pendingCancel, canceled,
                   reads, inbox, escCanceled, fgVars, bgVars, ret, catVars, mirrorVars,
                   histVars, authVars, credVars, selVars>>

StreamFairNext ==
    \/ StreamNext
    \/ \E s \in StreamIds : ReaderEOF(s)

\* A read command and the reader that meet on the channel exchange the chunk,
\* and Update takes every message handed to it.  The user's keys and the
\* moment the server ends the response body are under no obligation.
StreamFairness ==
    /\ \A s \in StreamIds : WF_vars(ReceiveChunk(s))
    /\ WF_vars(\E msg \in inbox : ResponseChunkMsg(msg))

StreamFairSpec == Init /\ [][StreamFairNext]_vars /\ StreamFairness

\* The reader goroutine of stream s has returned and closed its channel.
ReaderTerminated(s) == s \in DOMAIN streams /\ streams[s].closed

\* C27: canceling a stream unblocks its producer: once the stream's context is
\* canceled (esc, a newer prompt, the end of the stream), the provider's reader
\* goroutine eventually returns and closes its channel; it never stays blocked
\* on sending a chunk nobody will read.
C27_CancelUnblocksReader ==
    \A s \in StreamIds : (s \in canceled) ~> ReaderTerminated(s)

\* ---------------------------------------------- claims on the order of events
\* The statuses of job id's events that are still to be applied by Update, in
\* the order they will be: the one on its way to Update, then the channel's.
RECURSIVE StatusesOf(_, _)
StatusesOf(id, ch) ==
    IF ch = <<>> THEN <<>>
    ELSE (IF Head(ch).ID = id THEN <<Head(ch).Status>> ELSE <<>>)
            \o StatusesOf(id, Tail(ch))

ToCome(id) == StatusesOf(id, execEvent \o events)

\* A start event, then a terminal one, with either or both left out.
StartThenTerminal(seq) ==
    \/ seq = <<>>
    \/ Len(seq) = 1
    \/ Len(seq) = 2 /\ seq[1] = JobRunning /\ seq[2] # JobRunning

\* C28: the events of a background job observed on Events() are a subsequence
\* of (start event with Status=Running, one terminal event): the session loop
\* holds the last event of the job it has received, so what is still to come
\* is such a subsequence, holds only a terminal event once the start event has
\* been received, and nothing once the terminal event has been.
C28_StartBeforeTerminalOnce ==
    \A id \in uuids :
        /\ StartThenTerminal(ToCome(id))
        /\ id \in DOMAIN modelJobs =>
              IF modelJobs[id].Status = JobRunning
              THEN JobRunning \notin Range(ToCome(id)) /\ Len(ToCome(id)) <= 1
              ELSE ToCome(id) = <<>>

\* The terminal event of a job is on its way to Update, which has received the
\* job's start event, while an event of a later job waits in the channel.
C28_Witness ==
    /\ execEvent # <<>>
    /\ execEvent[1].Status # JobRunning
    /\ execEvent[1].ID \in DOMAIN modelJobs
    /\ modelJobs[execEvent[1].ID].Status = JobRunning
    /\ events # <<>>

\* ------------------------------------- the session loop inside StreamChat
\* Update runs in the session loop's goroutine and beginResponseStream calls
\* StreamChat in it: the provider client sends the request and waits in
\* httpClient.Do for the response's status line (and, for a status of 300 or
\* more, for the whole body).  The steps below are that one Update call, cut at
\* the wait.

\* beginResponseStream up to its call of StreamChat for stream s.
beginStreamChat(m, s) ==
    LET m1 == IF m.pendingResponse.active THEN finishResponseStream(m) ELSE m
        blk == appendStyledHistoryBlockRef(m1.messages, AssistantTitle, <<Own("...")>>)
    IN [m1 EXCEPT !.messages = blk.msgs,
                  !.pendingResponse =
                      [active |-> TRUE, block |-> blk.ref, buffer |-> <<>>],
                  !.pendingCancel = {s}]

\* beginResponseStream from the return of StreamChat, with an error or a channel.
endStreamChat(m, s, fails) ==
    IF fails
    THEN [finishResponseStream(m) EXCEPT !.messages = Append(@, Plain(From(s, "error")))]
    ELSE [m EXCEPT !.responseStream = {s}]

\* The session loop is inside StreamChat: the context of the call exists, the
\* call has not returned.
InStreamChat == \E s \in pendingCancel : s \notin DOMAIN streams

\* Update, enter key with a prompt in the composer, as far as the request to
\* the provider.
SubmitInputCallsStreamChat ==
    /\ ~InStreamChat
    /\ DOMAIN streams # StreamIds
    /\ LET s == Cardinality(DOMAIN streams) + 1
           usr == appendStyledHistoryBlockRef(messages, UserTitle, <<Own("prompt")>>)
       IN Commit(beginStreamChat([Sess EXCEPT !.messages = usr.msgs], s))
    /\ UNCHANGED <<streams, reads, inbox, escCanceled, fgVars, bgVars, ret, catVars,
                   mirrorVars, histVars, authVars, credVars, selVars>>

\* The provider answers (or the client gives up): StreamChat returns and Update
\* runs to its end.
StreamChatReturns(fails) ==
    /\ InStreamChat
    /\ LET s == CHOOSE x \in pendingCancel : TRUE
           m == endStreamChat(Sess, s, fails)
       IN /\ Commit(m)
          /\ streams' = (s :> [sent |-> 0, closed |-> fails, recv |-> 0, out |-> <<>>])
                             @@ streams
          /\ reads' = nextResponseChunkCmd(m, reads)
    /\ UNCHANGED <<inbox, escCanceled, fgVars, bgVars, ret, catVars, mirrorVars, histVars, authVars, credVars, selVars>>

\* The session loop takes a message only once the Update call before it has
\* returned.
UpdateEsc == ~InStreamChat /\ Esc
UpdateResponseChunkMsg(msg) == ~InStreamChat /\ ResponseChunkMsg(msg)

\* The commands' goroutines run whatever the loop does.
SubmitNext ==
    \/ SubmitInputCallsStreamChat
    \/ \E fails \in BOOLEAN : StreamChatReturns(fails)
    \/ UpdateEsc
    \/ \E s \in StreamIds : ReceiveChunk(s)
    \/ \E msg \in inbox : UpdateResponseChunkMsg(msg)

SubmitSpec == Init /\ [][SubmitNext]_vars

\* C29: the session loop never performs a blocking wait: no transition, the
\* submission of a prompt included, waits for a provider's network response, so
\* the loop can take its next message (the esc key, a chunk that has arrived)
\* at every moment, however long a provider takes to answer.
C29_LoopNeverBlocks ==
    /\ ~InStreamChat
    /\ ENABLED UpdateEsc
    /\ \A msg \in inbox : ENABLED UpdateResponseChunkMsg(msg)

\* ------------------------------------------------------ the executor's mutex
\* The positions of runForeground and of the worker goroutine at which e.mu is
\* held.  Every locked region (1665-1667, 1671-1673, 1699-1702, 1715-1730, and
\* the bodies of CancelForeground, CancelJob and ActiveJobs) is one step of this
\* model, and both calls of cmd.Run (1669, 1714) stand between an Unlock and
\* the next Lock: the mutex is held at no position a goroutine rests at.
MuHeldAcrossCmdRun == {"running", "run"}
MuHeldAt == {}

\* The goroutines that hold e.mu.
MuHolders ==
    {c \in Callers : fg[c].pc \in MuHeldAt}
        \cup {id \in DOMAIN worker : worker[id].pc \in MuHeldAt}

\* e.mu.Lock() returns.
MuFree == MuHolders = {}

\* The calls of the executor that take the mutex.
CallCancelForeground == MuFree /\ CancelForeground
CallCancelJob(id) == MuFree /\ CancelJob(id)
CallActiveJobs == MuFree /\ ActiveJobs
CallRunBackground == MuFree /\ startBackground

\* A process ends: killed if its context was canceled, with status 0 if not.
ForegroundProcessEnds(c) ==
    RunForegroundCmdRun(c) /\ fg'[c].err = (IF fg[c].done THEN "killed" ELSE "nil")
JobProcessEnds(id) ==
    WorkerCmdRun(id) /\ worker'[id].err = (IF bgCtx[id] THEN "killed" ELSE "nil")

\* One foreground caller, the background jobs and the calls on the executor.
MuNext ==
    \/ MuFree /\ RunForegroundBegin(1)
    \/ ForegroundProcessEnds(1)
    \/ MuFree /\ RunForegroundEnd(1)
    \/ CallCancelForeground
    \/ uuids # JobIds /\ CallRunBackground
    \/ \E id \in JobIds : JobProcessEnds(id)
    \/ \E id \in JobIds : MuFree /\ WorkerRecord(id)
    \/ \E id \in JobIds : WorkerEmit(id)
    \/ \E id \in JobIds : CallCancelJob(id)
    \/ CallActiveJobs

MuSpec == Init /\ [][MuNext]_vars

\* The processes that are running: the foreground one and those of the jobs.
RunningProcesses ==
    ForegroundRunning \cup {id \in DOMAIN worker : worker[id].pc = "run"}

TranscriptNext ==
    \/ streams = <<>> /\ SubmitInput(FALSE)
    \/ \E s \in StreamIds : ReceiveChunk(s)
    \/ \E msg \in inbox : ResponseChunkMsg(msg)
    \/ uuids = {} /\ startBackground
    \/ \E id \in JobIds : JobProcessEnds(id)
    \/ \E id \in JobIds : WorkerRecord(id)
    \/ \E id \in JobIds : WorkerEmit(id)
    \/ ListenExecEvents
    \/ ExecEventMsg

TranscriptSpec == Init /\ [][TranscriptNext]_vars

\* The assistant blocks of a transcript, by their first lines.
AssistantBlocks(msgs) ==
    {i \in 1..Len(msgs) : msgs[i] = [k |-> "head", t |-> AssistantTitle]}

\* C31: applying a text chunk replaces the active block in place: the lines
\* before the block and the lines after it (those appended by job events while
\* the stream was active included) are unchanged and in their order, the
\* transcript holds exactly one block for the stream, and the block reference
\* covers exactly the lines rendered from the accumulated text.
C31_ChunkReplacesInPlace ==
    /\ [](pendingResponse.active =>
            LET start == pendingResponse.block.start
                end == start + pendingResponse.block.length
            IN /\ end <= Len(messages)
               /\ SubSeq(messages, start + 1, end) = BlockLines(pendingResponse.buffer)
               /\ Cardinality(AssistantBlocks(messages)) = Cardinality(DOMAIN streams))
    /\ [][\A msg \in inbox : (Applies(msg) /\ ~msg.Err /\ msg.Text # <<>>) =>
            LET start == pendingResponse.block.start
                end == start + pendingResponse.block.length
                lines == BlockLines(pendingResponse.buffer \o msg.Text)
            IN /\ messages' = SubSeq(messages, 1, start) \o lines
                                 \o SubSeq(messages, end + 1, Len(messages))
               /\ AssistantBlocks(messages') = AssistantBlocks(messages)
               /\ ~msg.Done =>
                     pendingResponse'.block = [start |-> start, length |-> Len(lines)]]_vars

\* The active block has grown by a line while the lines of a job event stand
\* after it in the transcript.
C31_Witness ==
    /\ pendingResponse.active
    /\ pendingResponse.block.length > 3
    /\ pendingResponse.block.start + pendingResponse.block.length < Len(messages)

\* ------------------------------------- Update as a function of the session
\* The session state the two handlers below read and write: the stream
\* fields, the job mirror and the read commands issued.
Loop == [sess |-> Sess, jobs |-> modelJobs, reads |-> reads]

\* A variant of Update's execEventMsg case that records the event at the top
\* of the transcript.
execEventMsgRecordsOnTop(st, job) ==
    [st EXCEPT !.jobs = [id \in DOMAIN st.jobs \cup {job.ID} |->
                            IF id = job.ID THEN job ELSE st.jobs[id]],
               !.sess.messages = <<recordJobEvent(job)>> \o @]

\* Update, execEventMsg, applied to session state st.
execEventMsg(st, job) ==
    [st EXCEPT !.jobs = [id \in DOMAIN st.jobs \cup {job.ID} |->
                            IF id = job.ID THEN job ELSE st.jobs[id]],
               !.sess.messages = Append(@, recordJobEvent(job))]

\* Update, responseChunkMsg, applied to session state st.
responseChunkMsg(st, msg) ==
    IF ~st.sess.pendingResponse.active
    THEN st
    ELSE IF msg.Err
    THEN [st EXCEPT !.sess = finishResponseStream(
                        [@ EXCEPT !.messages = Append(@, Plain(From(msg.from, "error")))])]
    ELSE LET m == appendResponseText(st.sess, msg.Text) IN
         IF msg.Done
         THEN [st EXCEPT !.sess = finishResponseStream(m)]
         ELSE [st EXCEPT !.sess = m, !.reads = nextResponseChunkCmd(m, st.reads)]

\* The chunk messages a stream's read command can hand to Update, and the job
\* events the listener can: a running, a succeeded and a failed job.
ChunkMsgs ==
    UNION {{[from |-> s, n |-> 1, Text |-> t, Err |-> e, Done |-> d] :
                t \in {<<>>, From(s, "x"), From(s, "\n")},
                e \in BOOLEAN, d \in BOOLEAN} : s \in StreamIds}
JobEvents ==
    {NewJob(id) : id \in JobIds}
        \cup {Terminal(NewJob(id), err) : id \in JobIds, err \in {"nil", "exit"}}

\* Both orders of applying job event job and chunk message msg give the
\* same job mirror, stream fields and read commands.
SameButTranscript(job, msg) ==
    LET a == responseChunkMsg(execEventMsg(Loop, job), msg)
        b == execEventMsg(responseChunkMsg(Loop, msg), job)
    IN /\ a.jobs = b.jobs
       /\ a.reads = b.reads
       /\ [a.sess EXCEPT !.messages = <<>>] = [b.sess EXCEPT !.messages = <<>>]

\* Both orders give the same transcript.
SameTranscript(job, msg) ==
    responseChunkMsg(execEventMsg(Loop, job), msg).sess.messages
        = execEventMsg(responseChunkMsg(Loop, msg), job).sess.messages

\* Both orders give the same transcript but for the order of its last two
\* lines, the job's and the stream's error.
SameButLastTwo(job, msg) ==
    LET a == responseChunkMsg(execEventMsg(Loop, job), msg).sess.messages
        b == execEventMsg(responseChunkMsg(Loop, msg), job).sess.messages
        n == Len(messages)
    IN /\ Len(a) = n + 2
       /\ Len(b) = n + 2
       /\ SubSeq(a, 1, n) = SubSeq(b, 1, n)
       /\ a[n + 1] = b[n + 2]
       /\ a[n + 2] = b[n + 1]
       /\ a[n + 1] = recordJobEvent(job)

\* The handlers as functions are the handlers of the session loop.
HandlersAgree ==
    /\ \A msg \in inbox : ResponseChunkMsg(msg) => Loop' = responseChunkMsg(Loop, msg)
    /\ ExecEventMsg => Loop' = execEventMsg(Loop, execEvent[1])

ProviderNames == {Providers[i].Name : i \in DOMAIN Providers}

\* C33: catalog results are applied without a join or barrier: opening the
\* catalog starts one fetch per registered provider, and as soon as a
\* provider's result is processed while the catalog is visible the provider's
\* rows are in the catalog and the provider has left the loading set, whatever
\* the other providers have or have not answered.
C33_ResultsAppliedOneByOne ==
    /\ [][fetched' # fetched =>
            /\ Cardinality(fetching' \ fetching) = Len(Providers)
            /\ {f.provider : f \in fetching' \ fetching} = ProviderNames
            /\ catalog'.loading = ProviderNames]_vars
    /\ [][\A a \in applied' \ applied : a.visible =>
            /\ catalog'.rows = catalog.rows \o ResultRows(a.msg)
            /\ catalog'.loading = catalog.loading \ {a.msg.provider}
            /\ catalog'.visible]_vars

\* The first and only result so far of the latest /model command has its two
\* model rows in the catalog while the other provider is still loading and
\* its fetch has not returned.
C33_Witness ==
    /\ catalog.visible
    /\ Cardinality(applied) = 1
    /\ \E a \in Mine :
          /\ Len(a.msg.models) = 2
          /\ catalog.rows = ResultRows(a.msg)
          /\ a.msg.provider \notin catalog.loading
          /\ catalog.loading # {}
          /\ \E f \in fetching : f.gen = fetched /\ f.provider \in catalog.loading

\* --------------------------------------------- the three stream fields
\* C38: between any two transitions of the session loop the active block
\* (pendingResponse), the stream's channel (responseStream) and the stream's
\* cancel function (pendingCancel) are all set, and for the same stream, or
\* all unset; a StreamChat call that fails synchronously leaves all three
\* unset and the error is the last line of the transcript.
C38_StreamFieldsAgree ==
    /\ [](/\ pendingResponse.active <=> responseStream # {}
          /\ pendingResponse.active <=> pendingCancel # {}
          /\ responseStream = pendingCancel)
    /\ [][SubmitInput(TRUE) =>
            /\ ~pendingResponse'.active
            /\ responseStream' = {}
            /\ pendingCancel' = {}
            /\ messages'[Len(messages')] =
                  Plain(From(Cardinality(DOMAIN streams) + 1, "error"))]_vars

\* The StreamChat call of the second prompt has failed while the first
\* prompt's response was streaming: the three fields are unset, the first
\* stream is canceled and the error is the last line.
C38_Witness ==
    /\ DOMAIN streams = {1, 2}
    /\ streams[2].closed /\ streams[2].sent = 0
    /\ ~streams[1].closed
    /\ {1, 2} \subseteq canceled
    /\ ~pendingResponse.active /\ responseStream = {} /\ pendingCancel = {}
    /\ messages[Len(messages)] = Plain(From(2, "error"))

\* ------------------------------------------- cancelable set: running jobs
\* The registered jobs whose status is Running, as ActiveJobs reports them.
RunningJobs == {job.ID : job \in {j \in Snapshot(jobs) : j.Status = JobRunning}}

\* C37: the cancelable set contains only IDs of registered jobs whose status
\* is Running; so a CancelJob(id) that returns true is for a job that
\* ActiveJobs reports as Running at that moment, and a CancelJob on a job that
\* has reached a terminal status returns false.
C37_CancelableAreRunning ==
    /\ [](cancels \subseteq RunningJobs)
    /\ [][\A id \in JobIds :
            CancelJob(id) =>
                /\ ret'.ok => id \in RunningJobs
                /\ (id \in DOMAIN jobs /\ jobs[id].Status # JobRunning) => ~ret'.ok]_vars

\* CancelJob has returned true for a job that is still Running and the other
\* job has ended successfully.
C37_Witness ==
    /\ ret.op = "CancelJob" /\ ret.ok
    /\ ret.id \in RunningJobs
    /\ \E id \in DOMAIN jobs : jobs[id].Status = JobSuccess /\ id \notin cancels

\* ------------------------------------------------ job mirror: no regression
\* The jobs the session's mirror shows as Success or Failed.
MirrorTerminal ==
    {id \in DOMAIN modelJobs : modelJobs[id].Status \in {JobSuccess, JobFailed}}

\* C36: the session's mirror of a job never regresses: a job the mirror shows
\* as Success or Failed is shown so after every later step, never as Running
\* again; at most one event taken from the channel is on its way to Update at
\* any time.
C36_MirrorNeverRegresses ==
    /\ [](Len(execEvent) <= 1)
    /\ [][\A id \in MirrorTerminal :
            /\ id \in DOMAIN modelJobs'
            /\ modelJobs'[id].Status = modelJobs[id].Status]_vars

\* The mirror shows a job as Success or Failed and Update has since applied
\* another event, whose line is the last of the transcript.
C36_Witness ==
    /\ MirrorTerminal # {}
    /\ \E id \in DOMAIN modelJobs :
          /\ messages # <<>>
          /\ messages[Len(messages)] = recordJobEvent(modelJobs[id])
          /\ execEvent = <<>>
    /\ \E id \in MirrorTerminal : modelJobs[id].Status = JobFailed

\* --------------------------------------------- catalog: one fetch's results
\* The rows of the catalog that belong to provider name (every row shows the
\* provider's name first).
RowsOf(name) ==
    LET OfName(r) == r.Display[1] = name IN SelectSeq(catalog.rows, OfName)

\* C35: the visible catalog holds, for each provider, at most one result
\* group (its model rows, or one error row, or one no-match row), and the
\* group is a result of a fetch that the most recent /model command started;
\* the result of a fetch of an earlier /model command is never shown.
C35_CatalogOfLatestFetch ==
    catalog.visible =>
        \A name \in ProviderNames :
            \/ RowsOf(name) = <<>>
            \/ \E a \in Mine : a.msg.provider = name /\ RowsOf(name) = ResultRows(a.msg)

\* ------------------------------------------------- catalog: the selection
\* The rows of the catalog that can be selected, by index from 0.
SelectableRows ==
    {i \in 0..(Len(catalog.rows) - 1) : catalog.rows[i + 1].Selectable}

\* The numbers of steps in direction delta, around the ends of the list, that
\* lead from the selection to a selectable row.
Hops(delta) ==
    {k \in 1..Len(catalog.rows) :
        ((catalog.selection + delta * k) % Len(catalog.rows)) \in SelectableRows}

\* C39: whenever the catalog has rows the selection is the index of one of
\* them, and of a selectable one whenever there is one; an up or down key
\* moves the selection to the nearest selectable row in its direction,
\* wrapping around the ends, and leaves it alone when no row is selectable;
\* the enter key makes the selected row's provider and model the active ones
\* when the row is selectable and changes neither for an error or no-match
\* row or an empty catalog.
C39_SelectionOnSelectableRows ==
    /\ [](Len(catalog.rows) > 0 =>
             /\ catalog.selection \in 0..(Len(catalog.rows) - 1)
             /\ SelectableRows # {} => catalog.selection \in SelectableRows)
    /\ [][\A delta \in {-1, 1} :
            CatalogKeyMove(delta) =>
                IF Hops(delta) = {} THEN catalog' = catalog
                ELSE LET k == CHOOSE h \in Hops(delta) : \A o \in Hops(delta) : h <= o
                     IN catalog' = [catalog EXCEPT !.selection =
                                       (catalog.selection + delta * k) % Len(catalog.rows)]]_vars
    /\ [][CatalogKeyEnter =>
            IF catalog.selection \in SelectableRows
            THEN /\ activeProvider' = catalog.rows[catalog.selection + 1].Provider
                 /\ defaultModel' = catalog.rows[catalog.selection + 1].ModelName
            ELSE UNCHANGED selVars]_vars

\* The down key has moved the selection from a later row past a row that
\* cannot be selected, around the end of the list, to the first row; an
\* earlier enter key has made a model of the catalog the active one.
C39_Witness ==
    /\ ret.op = "moveCatalogSelection" /\ ret.ok /\ ret.code = 1
    /\ catalog.selection = 0
    /\ Len(catalog.rows) >= 3
    /\ (Len(catalog.rows) - 1) \notin SelectableRows
    /\ defaultModel \in {"a", "b"}

\* ----------------------------------------------------- browser login session
\* StartOpenAICodexFlow and StartAnthropicLoopbackFlow: a loopback HTTP server
\* whose handler, and the session's submit function, send the authorization
\* code on codeCh (make(chan ..., 1)) without blocking; Wait receives from it.
\* (The Anthropic flow sends with the code whether it was pasted from the
\* manual page, which decides the redirect URI of the exchange.)
CodeCap == 1
Codes == {"c1", "c2"}

authOther ==
    UNCHANGED <<fgVars, bgVars, sessVars, catVars, mirrorVars, histVars, credVars, selVars,
                ret>>

\* The HTTP handler: a request whose state does not match or whose code is
\* missing is answered 400; any other gets the success page, and its code is
\* sent if the channel has room and dropped if not.  The server runs until
\* Wait's deferred Shutdown.
HTTPCallback(code, stateOK) ==
    /\ login.pc \in {"idle", "waiting", "exchanging"}
    /\ IF ~stateOK
       THEN /\ authRet' = [op |-> "callback", ok |-> FALSE, err |-> "State mismatch",
                           resolved |-> login.taken # <<>>]
            /\ UNCHANGED login
       ELSE IF Len(login.codeCh) < CodeCap
       THEN /\ login' = [login EXCEPT
                            !.codeCh = Append(@, [code |-> code, manual |-> FALSE]),
                            !.accepted = Append(@, code)]
            /\ authRet' = [op |-> "callback", ok |-> TRUE, err |-> "nil",
                           resolved |-> login.taken # <<>>]
       ELSE /\ authRet' = [op |-> "callback", ok |-> FALSE, err |-> "dropped",
                           resolved |-> login.taken # <<>>]
            /\ UNCHANGED login
    /\ authOther

\* SubmitCallback with input that parses to a code and a state: the session's
\* submit function. (manual: the input is a URL of the manual page's host.)
SubmitCallback(code, stateOK, manual) ==
    /\ IF ~stateOK
       THEN /\ authRet' = [op |-> "SubmitCallback", ok |-> FALSE, err |-> "state mismatch",
                           resolved |-> login.taken # <<>>]
            /\ UNCHANGED login
       ELSE IF Len(login.codeCh) < CodeCap
       THEN /\ login' = [login EXCEPT
                            !.codeCh = Append(@, [code |-> code, manual |-> manual]),
                            !.accepted = Append(@, code)]
            /\ authRet' = [op |-> "SubmitCallback", ok |-> TRUE, err |-> "nil",
                           resolved |-> login.taken # <<>>]
       ELSE /\ authRet' = [op |-> "SubmitCallback", ok |-> FALSE,
                           err |-> "authorization already completed",
                           resolved |-> login.taken # <<>>]
            /\ UNCHANGED login
    /\ authOther

\* Wait is called and blocks in its select.
WaitCall ==
    /\ login.pc = "idle"
    /\ login' = [login EXCEPT !.pc = "waiting"]
    /\ authRet' = [op |-> "none"]
    /\ authOther

\* Wait's select receives a code; the exchange of the code for tokens begins.
WaitTakes ==
    /\ login.pc = "waiting"
    /\ login.codeCh # <<>>
    /\ login' = [login EXCEPT !.codeCh = Tail(@), !.taken = <<Head(login.codeCh)>>,
                              !.pc = "exchanging"]
    /\ authRet' = [op |-> "none"]
    /\ authOther

\* Wait returns: with the outcome of the exchange, or because its context is
\* done; the deferred Shutdown stops the server.
WaitReturns ==
    /\ login.pc \in {"waiting", "exchanging"}
    /\ login' = [login EXCEPT !.pc = "returned"]
    /\ authRet' = [op |-> "Wait", ok |-> login.pc = "exchanging", err |-> "nil",
                   resolved |-> login.taken # <<>>]
    /\ authOther

LoginNext ==
    \/ \E code \in Codes, stateOK \in BOOLEAN : HTTPCallback(code, stateOK)
    \/ \E code \in Codes, stateOK \in BOOLEAN, manual \in BOOLEAN :
          SubmitCallback(code, stateOK, manual)
    \/ WaitCall
    \/ WaitTakes
    \/ WaitReturns

LoginSpec == Init /\ [][LoginNext]_vars

\* C34: a browser login session is a single-resolution promise: over any
\* interleaving of automatic HTTP callbacks, manual SubmitCallback calls and
\* Wait, at most one authorization code is ever accepted, and once Wait has
\* taken a code every later SubmitCallback with a valid state is rejected as
\* already completed.
C34_SingleResolution ==
    /\ [](Len(login.accepted) <= 1)
    /\ [][\A code \in Codes, manual \in BOOLEAN :
            (login.taken # <<>> /\ SubmitCallback(code, TRUE, manual)) =>
                (~authRet'.ok /\ authRet'.err = "authorization already completed")]_vars

\* --------------------------------------------------------- credential store
\* internal/authstore keeps the credentials in one JSON file; every Save call
\* loads the file, changes one entry and writes the file back, holding the
\* package's mutex from its first statement to its return.  (Metadata, which
\* no Save call writes, is left out: it is empty and omitted from the file.)
CredProviders == {"openai", "anthropic"}

\* The keys of a JSON object in the order json.Marshal writes a map's.
MapKeyOrder == <<"anthropic", "openai">>

\* The arguments of the Save calls: API keys (one with characters json.Marshal
\* escapes), an authorization code, token sets with and without Extra.
APIKeyValues == {"sk-1", "sk<2>"}
AuthCodeValues == {"code#state"}
OAuthValues ==
    {[RefreshToken |-> "r1", AccessToken |-> "a1", ExpiresAt |-> 1,
      Extra |-> [k \in {} |-> ""]],
     [RefreshToken |-> "r2", AccessToken |-> "a<2>", ExpiresAt |-> 2,
      Extra |-> [k \in {"openai"} |-> "org"]]}

\* json.Marshal of a string (valid UTF-8): <, > and & are written as \u00XX
\* escapes; json.Unmarshal reads the escapes back.
marshalString(str) ==
    CASE str = "sk<2>" -> "sk\\u003c2\\u003e"
      [] str = "a<2>" -> "a\\u003c2\\u003e"
      [] OTHER -> str
unmarshalString(str) ==
    CASE str = "sk\\u003c2\\u003e" -> "sk<2>"
      [] str = "a\\u003c2\\u003e" -> "a<2>"
      [] OTHER -> str

\* json.Marshal of a map: a list of its keys, each with its encoded value, in
\* the order of the keys; json.Unmarshal builds the map from the list.
marshalMap(m) ==
    LET Has(k) == k \in DOMAIN m
        ks == SelectSeq(MapKeyOrder, Has)
    IN [i \in 1..Len(ks) |-> <<ks[i], m[ks[i]]>>]
unmarshalMap(entries) ==
    [k \in {entries[i][1] : i \in 1..Len(entries)} |->
        entries[CHOOSE i \in 1..Len(entries) :
                   entries[i][1] = k /\ \A j \in (i + 1)..Len(entries) : entries[j][1] # k][2]]

\* A map[string]string with every value encoded, and decoded.
marshalStrings(m) == marshalMap([k \in DOMAIN m |-> marshalString(m[k])])
unmarshalStrings(entries) ==
    LET m == unmarshalMap(entries) IN [k \in DOMAIN m |-> unmarshalString(m[k])]

\* OAuthTokens: extra is omitted from the object when the map is empty and an
\* object without it decodes to the nil map (which reads like the empty one).
marshalTokens(t) ==
    LET fields == [refresh_token |-> marshalString(t.RefreshToken),
                   access_token |-> marshalString(t.AccessToken),
                   expires_at |-> t.ExpiresAt]
    IN IF DOMAIN t.Extra = {} THEN fields
       ELSE [refresh_token |-> fields.refresh_token, access_token |-> fields.access_token,
             expires_at |-> fields.expires_at,
             extra |-> marshalStrings(t.Extra)]
unmarshalTokens(o) ==
    [RefreshToken |-> unmarshalString(o.refresh_token),
     AccessToken |-> unmarshalString(o.access_token),
     ExpiresAt |-> o.expires_at,
     Extra |-> IF "extra" \in DOMAIN o THEN unmarshalStrings(o.extra)
               ELSE [k \in {} |-> ""]]

\* load: the Credentials in the file; empty maps when the file does not exist.
load(file) ==
    IF file = <<>>
    THEN [APIKeys |-> [k \in {} |-> ""], AuthCodes |-> [k \in {} |-> ""],
          OAuth |-> [k \in {} |-> ""]]
    ELSE [APIKeys |-> unmarshalStrings(file.api_keys),
          AuthCodes |-> unmarshalStrings(file.auth_codes),
          OAuth |-> LET m == unmarshalMap(file.oauth)
                    IN [k \in DOMAIN m |-> unmarshalTokens(m[k])]]

\* save: the contents json.MarshalIndent gives the file.
save(creds) ==
    [api_keys |-> marshalStrings(creds.APIKeys),
     auth_codes |-> marshalStrings(creds.AuthCodes),
     oauth |-> marshalMap([k \in DOMAIN creds.OAuth |-> marshalTokens(creds.OAuth[k])])]

\* m[k] = v on a Go map.
SetKey(m, k, v) == [x \in DOMAIN m \cup {k} |-> IF x = k THEN v ELSE m[x]]

\* creds.APIKeys[provider] = key, creds.AuthCodes[provider] = code,
\* creds.OAuth[provider] = tokens.
Modify(creds, arg) ==
    CASE arg.field = "api_keys" ->
           [creds EXCEPT !.APIKeys = SetKey(@, arg.provider, arg.value)]
      [] arg.field = "auth_codes" ->
           [creds EXCEPT !.AuthCodes = SetKey(@, arg.provider, arg.value)]
      [] arg.field = "oauth" ->
           [creds EXCEPT !.OAuth = SetKey(@, arg.provider, arg.value)]

credOther ==
    UNCHANGED <<fgVars, bgVars, sessVars, catVars, mirrorVars, histVars, authVars, selVars,
                ret>>

\* A variant of the mutex that lets every caller in.
muLockNoExclusion(c) == TRUE

\* mu.Lock returns for caller c when no caller holds the mutex.
muLock(c) == credMu = {}

\* Caller c calls one of the Save functions, which all begin with mu.Lock().
SaveCall(c, arg) ==
    /\ saving[c].pc = "idle"
    /\ written.calls < MaxSaves
    /\ saving' = [saving EXCEPT ![c] = [pc |-> "lock", arg |-> arg]]
    /\ written' = [written EXCEPT !.calls = @ + 1]
    /\ UNCHANGED <<credFile, credMu>>
    /\ credOther

\* mu.Lock() returns and load() reads the file.
SaveLoad(c) ==
    /\ saving[c].pc = "lock"
    /\ muLock(c)
    /\ credMu' = credMu \cup {c}
    /\ saving' = [saving EXCEPT ![c] =
                     [pc |-> "loaded", arg |-> saving[c].arg, creds |-> load(credFile)]]
    /\ UNCHANGED <<credFile, written>>
    /\ credOther

\* The entry is set, save() writes the file, the deferred Unlock runs and the
\* call returns nil.
SaveStore(c) ==
    /\ saving[c].pc = "loaded"
    /\ credFile' = save(Modify(saving[c].creds, saving[c].arg))
    /\ credMu' = credMu \ {c}
    /\ saving' = [saving EXCEPT ![c] = [pc |-> "idle"]]
    /\ written' = [written EXCEPT !.last =
                      SetKey(@, <<saving[c].arg.field, saving[c].arg.provider>>,
                             saving[c].arg.value)]
    /\ credOther

SaveAPIKey(c, provider, key) ==
    SaveCall(c, [field |-> "api_keys", provider |-> provider, value |-> key])
SaveAuthCode(c, provider, code) ==
    SaveCall(c, [field |-> "auth_codes", provider |-> provider, value |-> code])
SaveOAuthTokens(c, provider, tokens) ==
    SaveCall(c, [field |-> "oauth", provider |-> provider, value |-> tokens])

CredNext ==
    \/ \E c \in Callers, pr \in CredProviders, key \in APIKeyValues : SaveAPIKey(c, pr, key)
    \/ \E c \in Callers, pr \in CredProviders, code \in AuthCodeValues :
          SaveAuthCode(c, pr, code)
    \/ \E c \in Callers, pr \in CredProviders, tokens \in OAuthValues :
          SaveOAuthTokens(c, pr, tokens)
    \/ \E c \in Callers : SaveLoad(c)
    \/ \E c \in Callers : SaveStore(c)

CredSpec == Init /\ [][CredNext]_vars

\* Snapshot: the stored credentials, by field and provider.
Stored ==
    LET creds == load(credFile)
        Of(field) == CASE field = "api_keys" -> creds.APIKeys
                       [] field = "auth_codes" -> creds.AuthCodes
                       [] field = "oauth" -> creds.OAuth
    IN [e \in UNION {{<<field, pr>> : pr \in DOMAIN Of(field)} :
                        field \in {"api_keys", "auth_codes", "oauth"}} |->
           Of(e[1])[e[2]]]

\* C40: within one process no credential update is lost: whenever no Save
\* call holds the store mutex the stored credentials hold, for every field
\* and provider a Save call has written, the value of the last such call, and
\* nothing else; a call between its load and its save is the only holder of
\* the mutex.
C40_NoCredentialUpdateLost ==
    /\ credMu = {} => Stored = written.last
    /\ \A c \in Callers : saving[c].pc = "loaded" => credMu = {c}

\* Two Save calls for different fields have returned and both values are
\* stored; one has characters that are escaped in the file, the other a
\* non-empty Extra map.
C40_Witness ==
    /\ written.calls >= 2
    /\ \A c \in Callers : saving[c].pc = "idle"
    /\ <<"api_keys", "openai">> \in DOMAIN written.last
    /\ written.last[<<"api_keys", "openai">>] = "sk<2>"
    /\ credFile.api_keys = <<(<<"openai", "sk\\u003c2\\u003e">>)>>
    /\ <<"oauth", "openai">> \in DOMAIN written.last
    /\ DOMAIN written.last[<<"oauth", "openai">>].Extra # {}
====
